---------------------------- MODULE Spec2Model ----------------------------
(***************************************************************************)
(* A model of the cznic/memory allocator (src/memory.go on top of the VM   *)
(* primitive of src/mmap_unix.go).  The revision of the allocator that     *)
(* keeps a registry of its mappings (src/unnamed/part_001) has the same    *)
(* Malloc, Realloc and Free, a test for the empty slice in Free, and       *)
(* Close; regs is its registry, and its Free and Close are modelled next   *)
(* to those of src/memory.go.                                              *)
(*                                                                         *)
(* Memory is an array of 8-byte words indexed by byte address.  Page       *)
(* headers and free-list nodes live in that memory exactly where the code  *)
(* puts them, so a wrong address computation, a missed unlink or a write   *)
(* into a slot that is handed out shows up as a changed word.  A word that *)
(* a region covers only partly is treated as covered: the allocator only   *)
(* ever writes whole words (struct fields) and never reads the tail of a   *)
(* slot before it has written it.                                          *)
(*                                                                         *)
(* The page size and the OS page size are scaled down (2^PageShift and     *)
(* 2^OsPageShift); headerSize, mallocAllign and the struct layouts keep    *)
(* their real values.                                                      *)
(***************************************************************************)
EXTENDS Integers, Sequences, FiniteSets, Bags, TLC

----------------------------------------------------------------------------
(* Bounds of the model *)

PageShift == 6

OsPageShift == 5

AddrPages == 2

MaxLive == 4

MaxFail == 1

MaxUnmapFail == 1

MaxOps == 7

MaxProbe == 100

----------------------------------------------------------------------------
(* Program constants and layout *)

mallocAllign == 16

SizeofPage == 32

WordSize == 8

brkOff == 0

logOff == 8

sizeOff == 16

usedOff == 24

prevOff == 0

nextOff == 8

nil == 0

pageSize == 2 ^ PageShift

osPageSize == 2 ^ OsPageShift

RECURSIVE AndNot(_, _)
AndNot(x, y) ==
    IF x = 0 THEN 0
    ELSE (IF x % 2 = 1 /\ y % 2 = 0 THEN 1 ELSE 0)
         + 2 * AndNot(x \div 2, y \div 2)

RECURSIVE BitLen(_)
BitLen(x) == IF x = 0 THEN 0 ELSE 1 + BitLen(x \div 2)

Shl(x, n) == x * (2 ^ n)

\* mutant: no rounding
roundup_none(n, m) == n

roundup(n, m) == AndNot(n + m - 1, m - 1)

headerSize == roundup(SizeofPage, mallocAllign)

pageAvail == pageSize - headerSize

\* mutant: the halving is forgotten
maxSlotSize_whole == pageAvail

maxSlotSize == pageAvail \div 2

pageMask == pageSize - 1

----------------------------------------------------------------------------
(* The address space: page 0 is never mapped (it holds the nil address). *)

AddrLimit == (AddrPages + 1) * pageSize

Words == {w \in 0 .. (AddrLimit - 1) : w % WordSize = 0}

Bases == {i * pageSize : i \in 1 .. AddrPages}

Logs == 0 .. PageShift

\* The request sizes the caller draws from in the interleaved runs: the
\* empty request, the smallest one, a full slot of the smallest class and
\* the first size that no shared page serves.
Sizes ==
    {0, 1, mallocAllign, maxSlotSize + 1}

StoreVal == 0 - 1

NilSlice == [Data |-> nil, Len |-> 0, Cap |-> 0]

NWords(n) == (n + WordSize - 1) \div WordSize

InRange(w, addr, n) == addr <= w /\ w < addr + WordSize * NWords(n)

Fill(m, addr, n, v) ==
    [w \in Words |-> IF InRange(w, addr, n) THEN v ELSE m[w]]

----------------------------------------------------------------------------
VARIABLES
    cap,       \* Allocator.cap
    lists,     \* Allocator.lists: head node address per class, or nil
    pages,     \* Allocator.pages: current bump page per class, or nil
    allocs,    \* Allocator.allocs
    bytes,     \* Allocator.bytes
    mmaps,     \* Allocator.mmaps
    regs,      \* bases of the mappings the allocator has mapped and not given back
    mem,       \* the memory words
    vm,        \* the mappings the operating system holds for the process
    live,      \* the regions the caller holds
    nfail,     \* number of failed map calls so far
    nufail,    \* number of failed unmap calls so far
    nops,      \* number of public calls so far
    panicked,  \* a run-time panic has ended the program
    probe      \* a request size and the class index computed for it

vars == <<cap, lists, pages, allocs, bytes, mmaps, regs, mem, vm, live,
          nfail, nufail, nops, panicked, probe>>

St ==
    [cap |-> cap, lists |-> lists, pages |-> pages, allocs |-> allocs,
     bytes |-> bytes, mmaps |-> mmaps, regs |-> regs, mem |-> mem, vm |-> vm]

----------------------------------------------------------------------------
(* The VM primitive *)

Fits(v, base, sz) ==
    /\ base \in Bases
    /\ base + sz <= AddrLimit
    /\ \A m \in v : m.base + m.size <= base \/ base + sz <= m.base

\* the operating system never places a new mapping at a base that lies
\* inside an existing one (choice = nil: it places none)
FreeBase(v, choice) ==
    choice = nil \/ \A m \in v : choice < m.base \/ choice >= m.base + m.size

\* mutant: the size is not rounded up to the OS page size
mmap_noRound(a, size, choice) ==
    LET sz == size IN
    IF choice = nil
    THEN [a |-> a, b |-> NilSlice, err |-> TRUE, valid |-> TRUE]
    ELSE [a |-> [a EXCEPT !.vm = @ \cup {[base |-> choice, size |-> sz]}],
          b |-> [Data |-> choice, Len |-> sz, Cap |-> sz],
          err |-> FALSE,
          valid |-> Fits(a.vm, choice, sz)]

\* choice = nil: the primitive fails; otherwise the base the OS picked.
mmap(a, size, choice) ==
    LET sz == roundup(size, osPageSize) IN
    IF choice = nil
    THEN [a |-> a, b |-> NilSlice, err |-> TRUE, valid |-> TRUE]
    ELSE [a |-> [a EXCEPT !.vm = @ \cup {[base |-> choice, size |-> sz]}],
          b |-> [Data |-> choice, Len |-> sz, Cap |-> sz],
          err |-> FALSE,
          valid |-> Fits(a.vm, choice, sz)]

\* ok = FALSE: the primitive fails and the mapping stays.
unmap(a, addr, size, ok) ==
    IF ok
    THEN [a |-> [a EXCEPT !.vm = {m \in @ : m.base # addr},
                          !.mem = Fill(@, addr, size, 0)],
          err |-> FALSE]
    ELSE [a |-> a, err |-> TRUE]

----------------------------------------------------------------------------
(* Allocator internals *)

newPage(a, size0, choice) ==
    LET size == size0 + headerSize
        r == mmap(a, size, choice)
        p == r.b.Data
    IN
    IF r.err
    THEN [a |-> r.a, p |-> nil, err |-> TRUE, valid |-> r.valid]
    ELSE [a |-> [r.a EXCEPT !.bytes = @ + r.b.Len,
                            !.mmaps = @ + 1,
                            !.regs = @ \cup {p},
                            !.mem = [@ EXCEPT ![p + sizeOff] = r.b.Len,
                                              ![p + logOff] = 0]],
          p |-> p, err |-> FALSE, valid |-> r.valid]

\* mutant: the header's log field is not set
newSharedPage_noLog(a, log, choice) ==
    LET a1 == IF a.cap[log] = 0
              THEN [a EXCEPT !.cap[log] = pageAvail \div (2 ^ log)]
              ELSE a
        size == headerSize + Shl(a1.cap[log], log)
        r == mmap(a1, size, choice)
        p == r.b.Data
    IN
    IF r.err
    THEN [a |-> r.a, p |-> nil, err |-> TRUE, valid |-> r.valid]
    ELSE [a |-> [r.a EXCEPT !.bytes = @ + r.b.Len,
                            !.mmaps = @ + 1,
                            !.regs = @ \cup {p},
                            !.pages[log] = p,
                            !.mem = [@ EXCEPT ![p + sizeOff] = r.b.Len]],
          p |-> p, err |-> FALSE, valid |-> r.valid]

newSharedPage(a, log, choice) ==
    LET a1 == IF a.cap[log] = 0
              THEN [a EXCEPT !.cap[log] = pageAvail \div (2 ^ log)]
              ELSE a
        size == headerSize + Shl(a1.cap[log], log)
        r == mmap(a1, size, choice)
        p == r.b.Data
    IN
    IF r.err
    THEN [a |-> r.a, p |-> nil, err |-> TRUE, valid |-> r.valid]
    ELSE [a |-> [r.a EXCEPT !.bytes = @ + r.b.Len,
                            !.mmaps = @ + 1,
                            !.regs = @ \cup {p},
                            !.pages[log] = p,
                            !.mem = [@ EXCEPT ![p + sizeOff] = r.b.Len,
                                              ![p + logOff] = log]],
          p |-> p, err |-> FALSE, valid |-> r.valid]

MallocLarge(a, size, choice) ==
    LET r == newPage(a, size, choice) IN
    IF r.err
    THEN [a |-> r.a, b |-> NilSlice, err |-> TRUE, valid |-> r.valid,
          sys |-> TRUE, path |-> "none", log |-> 0]
    ELSE [a |-> r.a,
          b |-> [Data |-> r.p + headerSize, Len |-> size, Cap |-> size],
          err |-> FALSE, valid |-> r.valid, sys |-> TRUE,
          path |-> "large", log |-> 0]

\* mutant: brk is not advanced
MallocBump_noBrk(a, size, log, sys) ==
    LET p == a.pages[log]
        brk == a.mem[p + brkOff]
        m1 == [a.mem EXCEPT ![p + usedOff] = @ + 1]
    IN
    [a |-> [a EXCEPT !.mem = m1,
                     !.pages[log] = IF m1[p + brkOff] = a.cap[log]
                                    THEN nil ELSE @],
     b |-> [Data |-> p + (headerSize + Shl(brk, log)), Len |-> size,
            Cap |-> 2 ^ log],
     err |-> FALSE, valid |-> TRUE, sys |-> sys, path |-> "bump",
     log |-> log]

\* mutant: the slot address leaves out the header
MallocBump_noHeader(a, size, log, sys) ==
    LET p == a.pages[log]
        brk == a.mem[p + brkOff]
        m1 == [a.mem EXCEPT ![p + usedOff] = @ + 1, ![p + brkOff] = @ + 1]
    IN
    [a |-> [a EXCEPT !.mem = m1,
                     !.pages[log] = IF m1[p + brkOff] = a.cap[log]
                                    THEN nil ELSE @],
     b |-> [Data |-> p + Shl(brk, log), Len |-> size, Cap |-> 2 ^ log],
     err |-> FALSE, valid |-> TRUE, sys |-> sys, path |-> "bump",
     log |-> log]

\* mutant: a fully carved page stays the current page
MallocBump_noDemote(a, size, log, sys) ==
    LET p == a.pages[log]
        brk == a.mem[p + brkOff]
        m1 == [a.mem EXCEPT ![p + usedOff] = @ + 1, ![p + brkOff] = @ + 1]
    IN
    [a |-> [a EXCEPT !.mem = m1],
     b |-> [Data |-> p + (headerSize + Shl(brk, log)), Len |-> size,
            Cap |-> 2 ^ log],
     err |-> FALSE, valid |-> TRUE, sys |-> sys, path |-> "bump",
     log |-> log]

\* mutant: slots are carved at half the slot size
MallocBump_halfStride(a, size, log, sys) ==
    LET p == a.pages[log]
        brk == a.mem[p + brkOff]
        m1 == [a.mem EXCEPT ![p + usedOff] = @ + 1, ![p + brkOff] = @ + 1]
    IN
    [a |-> [a EXCEPT !.mem = m1,
                     !.pages[log] = IF m1[p + brkOff] = a.cap[log]
                                    THEN nil ELSE @],
     b |-> [Data |-> p + (headerSize + Shl(brk, log - 1)), Len |-> size,
            Cap |-> 2 ^ log],
     err |-> FALSE, valid |-> TRUE, sys |-> sys, path |-> "bump",
     log |-> log]

MallocBump(a, size, log, sys) ==
    LET p == a.pages[log]
        brk == a.mem[p + brkOff]
        m1 == [a.mem EXCEPT ![p + usedOff] = @ + 1, ![p + brkOff] = @ + 1]
    IN
    [a |-> [a EXCEPT !.mem = m1,
                     !.pages[log] = IF m1[p + brkOff] = a.cap[log]
                                    THEN nil ELSE @],
     b |-> [Data |-> p + (headerSize + Shl(brk, log)), Len |-> size,
            Cap |-> 2 ^ log],
     err |-> FALSE, valid |-> TRUE, sys |-> sys, path |-> "bump",
     log |-> log]

\* mutant: the list head is not advanced
MallocPop_keepHead(a, size, log) ==
    LET n == a.lists[log]
        p == AndNot(n, pageMask)
        next == a.mem[n + nextOff]
        m1 == IF next # nil THEN [a.mem EXCEPT ![next + prevOff] = nil]
              ELSE a.mem
        m2 == [m1 EXCEPT ![p + usedOff] = @ + 1]
    IN
    [a |-> [a EXCEPT !.mem = m2],
     b |-> [Data |-> n, Len |-> size, Cap |-> 2 ^ log],
     err |-> FALSE, valid |-> TRUE, sys |-> FALSE, path |-> "pop",
     log |-> log]

\* mutant: the new head keeps its link to the popped node, as in the oldest
\* revision of Malloc
MallocPop_keepPrev(a, size, log) ==
    LET n == a.lists[log]
        p == AndNot(n, pageMask)
        next == a.mem[n + nextOff]
        m2 == [a.mem EXCEPT ![p + usedOff] = @ + 1]
    IN
    [a |-> [a EXCEPT !.lists[log] = next, !.mem = m2],
     b |-> [Data |-> n, Len |-> size, Cap |-> 2 ^ log],
     err |-> FALSE, valid |-> TRUE, sys |-> FALSE, path |-> "pop",
     log |-> log]

\* mutant: the page's used count is not incremented
MallocPop_noUsed(a, size, log) ==
    LET n == a.lists[log]
        p == AndNot(n, pageMask)
        next == a.mem[n + nextOff]
        m1 == IF next # nil THEN [a.mem EXCEPT ![next + prevOff] = nil]
              ELSE a.mem
    IN
    [a |-> [a EXCEPT !.lists[log] = next, !.mem = m1],
     b |-> [Data |-> n, Len |-> size, Cap |-> 2 ^ log],
     err |-> FALSE, valid |-> TRUE, sys |-> FALSE, path |-> "pop",
     log |-> log]

MallocPop(a, size, log) ==
    LET n == a.lists[log]
        p == AndNot(n, pageMask)
        next == a.mem[n + nextOff]
        m1 == IF next # nil THEN [a.mem EXCEPT ![next + prevOff] = nil]
              ELSE a.mem
        m2 == [m1 EXCEPT ![p + usedOff] = @ + 1]
    IN
    [a |-> [a EXCEPT !.lists[log] = next, !.mem = m2],
     b |-> [Data |-> n, Len |-> size, Cap |-> 2 ^ log],
     err |-> FALSE, valid |-> TRUE, sys |-> FALSE, path |-> "pop",
     log |-> log]

\* mutant: the class is one less than the bit length of the rounded size
classOf_bitLenLessOne(size) == BitLen(roundup(size, mallocAllign)) - 1

\* the class index Malloc computes for a request
classOf(size) == BitLen(roundup(size, mallocAllign) - 1)

\* mutant: the free list is tried before the current page
Malloc_popFirst(a, size, choice) ==
    IF size = 0
    THEN [a |-> a, b |-> NilSlice, err |-> FALSE, valid |-> TRUE,
          sys |-> FALSE, path |-> "none", log |-> 0]
    ELSE
    LET a1 == [a EXCEPT !.allocs = @ + 1]
        log == classOf(size)
    IN
    IF 2 ^ log > maxSlotSize
    THEN MallocLarge(a1, size, choice)
    ELSE
    LET need == a1.lists[log] = nil /\ a1.pages[log] = nil
        np == IF need THEN newSharedPage(a1, log, choice)
              ELSE [a |-> a1, p |-> nil, err |-> FALSE, valid |-> TRUE]
    IN
    IF np.err
    THEN [a |-> np.a, b |-> NilSlice, err |-> TRUE, valid |-> np.valid,
          sys |-> TRUE, path |-> "none", log |-> log]
    ELSE IF np.a.lists[log] = nil
    THEN [MallocBump(np.a, size, log, need) EXCEPT !.valid = np.valid]
    ELSE MallocPop(np.a, size, log)

Malloc(a, size, choice) ==
    IF size = 0
    THEN [a |-> a, b |-> NilSlice, err |-> FALSE, valid |-> TRUE,
          sys |-> FALSE, path |-> "none", log |-> 0]
    ELSE
    LET a1 == [a EXCEPT !.allocs = @ + 1]
        log == classOf(size)
    IN
    IF 2 ^ log > maxSlotSize
    THEN MallocLarge(a1, size, choice)
    ELSE
    LET need == a1.lists[log] = nil /\ a1.pages[log] = nil
        np == IF need THEN newSharedPage(a1, log, choice)
              ELSE [a |-> a1, p |-> nil, err |-> FALSE, valid |-> TRUE]
    IN
    IF np.err
    THEN [a |-> np.a, b |-> NilSlice, err |-> TRUE, valid |-> np.valid,
          sys |-> TRUE, path |-> "none", log |-> log]
    ELSE IF np.a.pages[log] # nil
    THEN [MallocBump(np.a, size, log, need) EXCEPT !.valid = np.valid]
    ELSE MallocPop(np.a, size, log)

\* mutant: the loop stops one slot early
RECURSIVE Drain_skipLast(_, _, _, _)
Drain_skipLast(a, p, log, i) ==
    IF i >= a.mem[p + brkOff] - 1 THEN a
    ELSE
    LET n == p + (headerSize + Shl(i, log))
        prev == a.mem[n + prevOff]
        next == a.mem[n + nextOff]
        a2 == IF prev = nil
              THEN [a EXCEPT !.lists[log] = next,
                             !.mem = IF next # nil
                                     THEN [@ EXCEPT ![next + prevOff] = nil]
                                     ELSE @]
              ELSE IF next = nil
              THEN [a EXCEPT !.mem = [@ EXCEPT ![prev + nextOff] = nil]]
              ELSE [a EXCEPT !.mem = [@ EXCEPT ![prev + nextOff] = next,
                                               ![next + prevOff] = prev]]
    IN Drain_skipLast(a2, p, log, i + 1)

RECURSIVE Drain(_, _, _, _)
Drain(a, p, log, i) ==
    IF i >= a.mem[p + brkOff] THEN a
    ELSE
    LET n == p + (headerSize + Shl(i, log))
        prev == a.mem[n + prevOff]
        next == a.mem[n + nextOff]
        a2 == IF prev = nil
              THEN [a EXCEPT !.lists[log] = next,
                             !.mem = IF next # nil
                                     THEN [@ EXCEPT ![next + prevOff] = nil]
                                     ELSE @]
              ELSE IF next = nil
              THEN [a EXCEPT !.mem = [@ EXCEPT ![prev + nextOff] = nil]]
              ELSE [a EXCEPT !.mem = [@ EXCEPT ![prev + nextOff] = next,
                                               ![next + prevOff] = prev]]
    IN Drain(a2, p, log, i + 1)

\* mutant: bytes is not reduced
Release_keepBytes(a, p, ok) ==
    LET size == a.mem[p + sizeOff]
        a1 == [a EXCEPT !.mmaps = @ - 1, !.regs = @ \ {p}]
        r == unmap(a1, p, size, ok)
    IN [a |-> r.a, err |-> r.err, sys |-> TRUE, panic |-> FALSE]

\* mutant: the accounting is only updated when unmap succeeds
Release_onlyOnSuccess(a, p, ok) ==
    LET size == a.mem[p + sizeOff]
        a1 == [a EXCEPT !.mmaps = @ - 1, !.bytes = @ - size,
                        !.regs = @ \ {p}]
        r == unmap(a1, p, size, ok)
    IN [a |-> IF r.err THEN a ELSE r.a, err |-> r.err, sys |-> TRUE,
        panic |-> FALSE]

Release(a, p, ok) ==
    LET size == a.mem[p + sizeOff]
        a1 == [a EXCEPT !.mmaps = @ - 1, !.bytes = @ - size,
                        !.regs = @ \ {p}]
        r == unmap(a1, p, size, ok)
    IN [a |-> r.a, err |-> r.err, sys |-> TRUE, panic |-> FALSE]

\* mutant: the slice is not extended to its capacity
Free_noReslice(a, b0, ok) ==
    LET b == b0
        a1 == [a EXCEPT !.allocs = @ - 1]
        p == AndNot(b.Data, pageMask)
        log == a1.mem[p + logOff]
    IN
    IF b.Len = 0
    THEN [a |-> a1, err |-> FALSE, sys |-> FALSE, panic |-> TRUE]
    ELSE
    IF log = 0 THEN Release(a1, p, ok)
    ELSE
    LET n == b.Data
        head == a1.lists[log]
        m1 == [a1.mem EXCEPT ![n + prevOff] = nil, ![n + nextOff] = head]
        m2 == IF head # nil THEN [m1 EXCEPT ![head + prevOff] = n] ELSE m1
        m3 == [m2 EXCEPT ![p + usedOff] = @ - 1]
        a2 == [a1 EXCEPT !.mem = m3, !.lists[log] = n]
    IN
    IF m3[p + usedOff] # 0
    THEN [a |-> a2, err |-> FALSE, sys |-> FALSE, panic |-> FALSE]
    ELSE
    LET a3 == Drain(a2, p, log, 0)
        a4 == IF a3.pages[log] = p THEN [a3 EXCEPT !.pages[log] = nil]
              ELSE a3
    IN Release(a4, p, ok)

\* mutant: the page is drained and released while slots are in use
Free_alwaysDrain(a, b0, ok) ==
    LET b == [b0 EXCEPT !.Len = b0.Cap]
        a1 == [a EXCEPT !.allocs = @ - 1]
        p == AndNot(b.Data, pageMask)
        log == a1.mem[p + logOff]
    IN
    IF b.Len = 0
    THEN [a |-> a1, err |-> FALSE, sys |-> FALSE, panic |-> TRUE]
    ELSE
    IF log = 0 THEN Release(a1, p, ok)
    ELSE
    LET n == b.Data
        head == a1.lists[log]
        m1 == [a1.mem EXCEPT ![n + prevOff] = nil, ![n + nextOff] = head]
        m2 == IF head # nil THEN [m1 EXCEPT ![head + prevOff] = n] ELSE m1
        m3 == [m2 EXCEPT ![p + usedOff] = @ - 1]
        a2 == [a1 EXCEPT !.mem = m3, !.lists[log] = n]
    IN
    IF m3[p + usedOff] < 0
    THEN [a |-> a2, err |-> FALSE, sys |-> FALSE, panic |-> FALSE]
    ELSE
    LET a3 == Drain(a2, p, log, 0)
        a4 == IF a3.pages[log] = p THEN [a3 EXCEPT !.pages[log] = nil]
              ELSE a3
    IN Release(a4, p, ok)

\* mutant: a drained page stays the current page
Free_keepCurrent(a, b0, ok) ==
    LET b == [b0 EXCEPT !.Len = b0.Cap]
        a1 == [a EXCEPT !.allocs = @ - 1]
        p == AndNot(b.Data, pageMask)
        log == a1.mem[p + logOff]
    IN
    IF b.Len = 0
    THEN [a |-> a1, err |-> FALSE, sys |-> FALSE, panic |-> TRUE]
    ELSE
    IF log = 0 THEN Release(a1, p, ok)
    ELSE
    LET n == b.Data
        head == a1.lists[log]
        m1 == [a1.mem EXCEPT ![n + prevOff] = nil, ![n + nextOff] = head]
        m2 == IF head # nil THEN [m1 EXCEPT ![head + prevOff] = n] ELSE m1
        m3 == [m2 EXCEPT ![p + usedOff] = @ - 1]
        a2 == [a1 EXCEPT !.mem = m3, !.lists[log] = n]
    IN
    IF m3[p + usedOff] # 0
    THEN [a |-> a2, err |-> FALSE, sys |-> FALSE, panic |-> FALSE]
    ELSE
    LET a3 == Drain(a2, p, log, 0)
        a4 == a3
    IN Release(a4, p, ok)

\* mutant: pages[log] is cleared after the unmap, and only if it succeeded
Free_clearAfterUnmap(a, b0, ok) ==
    LET b == [b0 EXCEPT !.Len = b0.Cap]
        a1 == [a EXCEPT !.allocs = @ - 1]
        p == AndNot(b.Data, pageMask)
        log == a1.mem[p + logOff]
    IN
    IF b.Len = 0
    THEN [a |-> a1, err |-> FALSE, sys |-> FALSE, panic |-> TRUE]
    ELSE
    IF log = 0 THEN Release(a1, p, ok)
    ELSE
    LET n == b.Data
        head == a1.lists[log]
        m1 == [a1.mem EXCEPT ![n + prevOff] = nil, ![n + nextOff] = head]
        m2 == IF head # nil THEN [m1 EXCEPT ![head + prevOff] = n] ELSE m1
        m3 == [m2 EXCEPT ![p + usedOff] = @ - 1]
        a2 == [a1 EXCEPT !.mem = m3, !.lists[log] = n]
    IN
    IF m3[p + usedOff] # 0
    THEN [a |-> a2, err |-> FALSE, sys |-> FALSE, panic |-> FALSE]
    ELSE
    LET a3 == Drain(a2, p, log, 0)
        r == Release(a3, p, ok)
    IN IF ~r.err /\ a3.pages[log] = p
       THEN [r EXCEPT !.a.pages[log] = nil]
       ELSE r

\* Free of src/memory.go.  For a slice without capacity, b[:cap(b)] is
\* empty and &b[0] panics (index out of range) after allocs was decremented.
Free(a, b0, ok) ==
    LET b == [b0 EXCEPT !.Len = b0.Cap]
        a1 == [a EXCEPT !.allocs = @ - 1]
        p == AndNot(b.Data, pageMask)
        log == a1.mem[p + logOff]
    IN
    IF b.Len = 0
    THEN [a |-> a1, err |-> FALSE, sys |-> FALSE, panic |-> TRUE]
    ELSE
    IF log = 0 THEN Release(a1, p, ok)
    ELSE
    LET n == b.Data
        head == a1.lists[log]
        m1 == [a1.mem EXCEPT ![n + prevOff] = nil, ![n + nextOff] = head]
        m2 == IF head # nil THEN [m1 EXCEPT ![head + prevOff] = n] ELSE m1
        m3 == [m2 EXCEPT ![p + usedOff] = @ - 1]
        a2 == [a1 EXCEPT !.mem = m3, !.lists[log] = n]
    IN
    IF m3[p + usedOff] # 0
    THEN [a |-> a2, err |-> FALSE, sys |-> FALSE, panic |-> FALSE]
    ELSE
    LET a3 == Drain(a2, p, log, 0)
        a4 == IF a3.pages[log] = p THEN [a3 EXCEPT !.pages[log] = nil]
              ELSE a3
    IN Release(a4, p, ok)

\* Free of the revision that keeps the registry (src/unnamed/part_001): the
\* same code behind a test for the empty slice.
FreeChecked(a, b0, ok) ==
    LET b == [b0 EXCEPT !.Len = b0.Cap] IN
    IF b.Len = 0
    THEN [a |-> a, err |-> FALSE, sys |-> FALSE, panic |-> FALSE]
    ELSE Free(a, b0, ok)

\* Allocator.unmap of the revision with the registry: the page leaves the
\* registry and mmaps before the primitive is called with the size read
\* from its header.
AllocatorUnmap(a, p, ok) ==
    LET size == a.mem[p + sizeOff]
        a1 == [a EXCEPT !.regs = @ \ {p}, !.mmaps = @ - 1]
    IN unmap(a1, p, size, ok)

\* The zero value of the Allocator, in the world w left behind.
ZeroAllocator(w) ==
    [cap |-> [l \in Logs |-> 0], lists |-> [l \in Logs |-> nil],
     pages |-> [l \in Logs |-> nil], allocs |-> 0, bytes |-> 0, mmaps |-> 0,
     regs |-> {}, mem |-> w.mem, vm |-> w.vm]

\* mutant: the loop returns at the first failing unmap
RECURSIVE CloseLoop_stop(_, _, _, _)
CloseLoop_stop(a, todo, fails, err) ==
    IF todo = {} \/ err THEN [a |-> a, err |-> err]
    ELSE LET p == CHOOSE q \in todo : TRUE
             r == AllocatorUnmap(a, p, p \notin fails)
         IN CloseLoop_stop(r.a, todo \ {p}, fails, err \/ r.err)

\* for p := range a.regs: every page of the registry, in any order; fails
\* are the pages whose unmap the OS refuses.
RECURSIVE CloseLoop(_, _, _, _)
CloseLoop(a, todo, fails, err) ==
    IF todo = {} THEN [a |-> a, err |-> err]
    ELSE LET p == CHOOSE q \in todo : TRUE
             r == AllocatorUnmap(a, p, p \notin fails)
         IN CloseLoop(r.a, todo \ {p}, fails, err \/ r.err)

Close(a, fails) ==
    LET r == CloseLoop(a, a.regs, fails, FALSE) IN
    [a |-> ZeroAllocator(r.a), err |-> r.err]

\* mutant: the region is returned as Malloc left it
Calloc_noZero(a, size, choice) ==
    LET r == Malloc(a, size, choice) IN
    IF r.err THEN [r EXCEPT !.b = NilSlice]
    ELSE r

Calloc(a, size, choice) ==
    LET r == Malloc(a, size, choice) IN
    IF r.err THEN [r EXCEPT !.b = NilSlice]
    ELSE [r EXCEPT !.a.mem = Fill(@, r.b.Data, r.b.Len, 0)]

\* mutant: the test of the log field is inverted
UsableSize_swapped(m, p) ==
    IF p = nil THEN 0
    ELSE LET pg == AndNot(p, pageMask) IN
         IF m[pg + logOff] = 0 THEN 2 ^ m[pg + logOff]
         ELSE m[pg + sizeOff] - headerSize

UsableSize(m, p) ==
    IF p = nil THEN 0
    ELSE LET pg == AndNot(p, pageMask) IN
         IF m[pg + logOff] # 0 THEN 2 ^ m[pg + logOff]
         ELSE m[pg + sizeOff] - headerSize

\* copy(dst, src) of the Go runtime: min(len(dst), len(src)) bytes.
copy(m, dst, src) ==
    LET n == IF dst.Len < src.Len THEN dst.Len ELSE src.Len IN
    [w \in Words |->
        IF InRange(w, dst.Data, n)
        THEN m[src.Data + (w - dst.Data)] ELSE m[w]]

\* mutant: the copy goes from the new region to the old one
Realloc_copyBack(a, b, size, choice, ok) ==
    IF b.Cap = 0
    THEN LET r == Malloc(a, size, choice) IN
         [a |-> r.a, b |-> r.b, err |-> r.err, valid |-> r.valid,
          sys |-> r.sys, usys |-> FALSE, merr |-> r.err, kind |-> "malloc",
          path |-> r.path, log |-> r.log]
    ELSE IF size = 0
    THEN LET f == Free(a, b, ok) IN
         [a |-> f.a, b |-> NilSlice, err |-> f.err, valid |-> TRUE,
          sys |-> FALSE, usys |-> f.sys, merr |-> FALSE, kind |-> "free",
          path |-> "none", log |-> 0]
    ELSE IF size <= b.Cap
    THEN [a |-> a, b |-> [b EXCEPT !.Len = size], err |-> FALSE,
          valid |-> TRUE, sys |-> FALSE, usys |-> FALSE, merr |-> FALSE,
          kind |-> "same", path |-> "none", log |-> 0]
    ELSE
    LET r == Malloc(a, size, choice) IN
    IF r.err
    THEN [a |-> r.a, b |-> NilSlice, err |-> TRUE, valid |-> r.valid,
          sys |-> r.sys, usys |-> FALSE, merr |-> TRUE, kind |-> "fail",
          path |-> "none", log |-> 0]
    ELSE
    LET a1 == [r.a EXCEPT !.mem = copy(@, b, r.b)]
        f == Free(a1, b, ok)
    IN [a |-> f.a, b |-> r.b, err |-> f.err, valid |-> r.valid,
        sys |-> r.sys, usys |-> f.sys, merr |-> FALSE, kind |-> "moved",
        path |-> r.path, log |-> r.log]

\* mutant: the size is compared with the length, not the capacity
Realloc_lenTest(a, b, size, choice, ok) ==
    IF b.Cap = 0
    THEN LET r == Malloc(a, size, choice) IN
         [a |-> r.a, b |-> r.b, err |-> r.err, valid |-> r.valid,
          sys |-> r.sys, usys |-> FALSE, merr |-> r.err, kind |-> "malloc",
          path |-> r.path, log |-> r.log]
    ELSE IF size = 0
    THEN LET f == Free(a, b, ok) IN
         [a |-> f.a, b |-> NilSlice, err |-> f.err, valid |-> TRUE,
          sys |-> FALSE, usys |-> f.sys, merr |-> FALSE, kind |-> "free",
          path |-> "none", log |-> 0]
    ELSE IF size <= b.Len
    THEN [a |-> a, b |-> [b EXCEPT !.Len = size], err |-> FALSE,
          valid |-> TRUE, sys |-> FALSE, usys |-> FALSE, merr |-> FALSE,
          kind |-> "same", path |-> "none", log |-> 0]
    ELSE
    LET r == Malloc(a, size, choice) IN
    IF r.err
    THEN [a |-> r.a, b |-> NilSlice, err |-> TRUE, valid |-> r.valid,
          sys |-> r.sys, usys |-> FALSE, merr |-> TRUE, kind |-> "fail",
          path |-> "none", log |-> 0]
    ELSE
    LET a1 == [r.a EXCEPT !.mem = copy(@, r.b, b)]
        f == Free(a1, b, ok)
    IN [a |-> f.a, b |-> r.b, err |-> f.err, valid |-> r.valid,
        sys |-> r.sys, usys |-> f.sys, merr |-> FALSE, kind |-> "moved",
        path |-> r.path, log |-> r.log]

\* mutant: the old region is freed although the allocation failed
Realloc_freeOnFail(a, b, size, choice, ok) ==
    IF b.Cap = 0
    THEN LET r == Malloc(a, size, choice) IN
         [a |-> r.a, b |-> r.b, err |-> r.err, valid |-> r.valid,
          sys |-> r.sys, usys |-> FALSE, merr |-> r.err, kind |-> "malloc",
          path |-> r.path, log |-> r.log]
    ELSE IF size = 0
    THEN LET f == Free(a, b, ok) IN
         [a |-> f.a, b |-> NilSlice, err |-> f.err, valid |-> TRUE,
          sys |-> FALSE, usys |-> f.sys, merr |-> FALSE, kind |-> "free",
          path |-> "none", log |-> 0]
    ELSE IF size <= b.Cap
    THEN [a |-> a, b |-> [b EXCEPT !.Len = size], err |-> FALSE,
          valid |-> TRUE, sys |-> FALSE, usys |-> FALSE, merr |-> FALSE,
          kind |-> "same", path |-> "none", log |-> 0]
    ELSE
    LET r == Malloc(a, size, choice) IN
    IF r.err
    THEN [a |-> Free(r.a, b, ok).a, b |-> NilSlice, err |-> TRUE,
          valid |-> r.valid,
          sys |-> r.sys, usys |-> FALSE, merr |-> TRUE, kind |-> "fail",
          path |-> "none", log |-> 0]
    ELSE
    LET a1 == [r.a EXCEPT !.mem = copy(@, r.b, b)]
        f == Free(a1, b, ok)
    IN [a |-> f.a, b |-> r.b, err |-> f.err, valid |-> r.valid,
        sys |-> r.sys, usys |-> f.sys, merr |-> FALSE, kind |-> "moved",
        path |-> r.path, log |-> r.log]

Realloc(a, b, size, choice, ok) ==
    IF b.Cap = 0
    THEN LET r == Malloc(a, size, choice) IN
         [a |-> r.a, b |-> r.b, err |-> r.err, valid |-> r.valid,
          sys |-> r.sys, usys |-> FALSE, merr |-> r.err, kind |-> "malloc",
          path |-> r.path, log |-> r.log]
    ELSE IF size = 0
    THEN LET f == Free(a, b, ok) IN
         [a |-> f.a, b |-> NilSlice, err |-> f.err, valid |-> TRUE,
          sys |-> FALSE, usys |-> f.sys, merr |-> FALSE, kind |-> "free",
          path |-> "none", log |-> 0]
    ELSE IF size <= b.Cap
    THEN [a |-> a, b |-> [b EXCEPT !.Len = size], err |-> FALSE,
          valid |-> TRUE, sys |-> FALSE, usys |-> FALSE, merr |-> FALSE,
          kind |-> "same", path |-> "none", log |-> 0]
    ELSE
    LET r == Malloc(a, size, choice) IN
    IF r.err
    THEN [a |-> r.a, b |-> NilSlice, err |-> TRUE, valid |-> r.valid,
          sys |-> r.sys, usys |-> FALSE, merr |-> TRUE, kind |-> "fail",
          path |-> "none", log |-> 0]
    ELSE
    LET a1 == [r.a EXCEPT !.mem = copy(@, r.b, b)]
        f == Free(a1, b, ok)
    IN [a |-> f.a, b |-> r.b, err |-> f.err, valid |-> r.valid,
        sys |-> r.sys, usys |-> f.sys, merr |-> FALSE, kind |-> "moved",
        path |-> r.path, log |-> r.log]

----------------------------------------------------------------------------
(* The pointer API of the revision with the registry *)

\* mutant: the slot address is computed from brk after its increment
UnsafeBump_brkAfter(a, log, sys) ==
    LET pg == a.pages[log]
        m1 == [a.mem EXCEPT ![pg + usedOff] = @ + 1, ![pg + brkOff] = @ + 1]
    IN
    [a |-> [a EXCEPT !.mem = m1,
                     !.pages[log] = IF m1[pg + brkOff] = a.cap[log]
                                    THEN nil ELSE @],
     p |-> pg + (headerSize + Shl(m1[pg + brkOff], log)),
     err |-> FALSE, valid |-> TRUE, sys |-> sys, path |-> "bump",
     log |-> log]

\* the bump path of UnsafeMalloc: brk is advanced first and the address is
\* that of slot brk - 1
UnsafeBump(a, log, sys) ==
    LET pg == a.pages[log]
        m1 == [a.mem EXCEPT ![pg + usedOff] = @ + 1, ![pg + brkOff] = @ + 1]
    IN
    [a |-> [a EXCEPT !.mem = m1,
                     !.pages[log] = IF m1[pg + brkOff] = a.cap[log]
                                    THEN nil ELSE @],
     p |-> pg + (headerSize + Shl(m1[pg + brkOff] - 1, log)),
     err |-> FALSE, valid |-> TRUE, sys |-> sys, path |-> "bump",
     log |-> log]

\* the free-list path of UnsafeMalloc
UnsafePop(a, log) ==
    LET n == a.lists[log]
        pg == AndNot(n, pageMask)
        next == a.mem[n + nextOff]
        m1 == IF next # nil THEN [a.mem EXCEPT ![next + prevOff] = nil]
              ELSE a.mem
        m2 == [m1 EXCEPT ![pg + usedOff] = @ + 1]
    IN
    [a |-> [a EXCEPT !.lists[log] = next, !.mem = m2],
     p |-> n, err |-> FALSE, valid |-> TRUE, sys |-> FALSE, path |-> "pop",
     log |-> log]

\* the solo-page path of UnsafeMalloc
UnsafeLarge(a, size, choice) ==
    LET r == newPage(a, size, choice) IN
    IF r.err
    THEN [a |-> r.a, p |-> nil, err |-> TRUE, valid |-> r.valid,
          sys |-> TRUE, path |-> "none", log |-> 0]
    ELSE [a |-> r.a, p |-> r.p + headerSize, err |-> FALSE,
          valid |-> r.valid, sys |-> TRUE, path |-> "large", log |-> 0]

UnsafeMalloc(a, size, choice) ==
    IF size = 0
    THEN [a |-> a, p |-> nil, err |-> FALSE, valid |-> TRUE, sys |-> FALSE,
          path |-> "none", log |-> 0]
    ELSE
    LET a1 == [a EXCEPT !.allocs = @ + 1]
        log == classOf(size)
    IN
    IF 2 ^ log > maxSlotSize
    THEN UnsafeLarge(a1, size, choice)
    ELSE
    LET need == a1.lists[log] = nil /\ a1.pages[log] = nil
        np == IF need THEN newSharedPage(a1, log, choice)
              ELSE [a |-> a1, p |-> nil, err |-> FALSE, valid |-> TRUE]
    IN
    IF np.err
    THEN [a |-> np.a, p |-> nil, err |-> TRUE, valid |-> np.valid,
          sys |-> TRUE, path |-> "none", log |-> log]
    ELSE IF np.a.pages[log] # nil
    THEN [UnsafeBump(np.a, log, need) EXCEPT !.valid = np.valid]
    ELSE UnsafePop(np.a, log)

UnsafeCalloc(a, size, choice) ==
    LET r == UnsafeMalloc(a, size, choice) IN
    IF r.p = nil \/ r.err THEN [r EXCEPT !.p = nil]
    ELSE [r EXCEPT !.a.mem = Fill(@, r.p, size, 0)]

\* the end of UnsafeFree: bytes is reduced by the size in the header and
\* the page goes through Allocator.unmap
UnsafeRelease(a, pg, ok) ==
    LET r == AllocatorUnmap([a EXCEPT !.bytes = @ - a.mem[pg + sizeOff]],
                            pg, ok)
    IN [a |-> r.a, err |-> r.err, sys |-> TRUE]

UnsafeFree(a, p, ok) ==
    IF p = nil
    THEN [a |-> a, err |-> FALSE, sys |-> FALSE]
    ELSE
    LET a1 == [a EXCEPT !.allocs = @ - 1]
        pg == AndNot(p, pageMask)
        log == a1.mem[pg + logOff]
    IN
    IF log = 0
    THEN UnsafeRelease(a1, pg, ok)
    ELSE
    LET head == a1.lists[log]
        m1 == [a1.mem EXCEPT ![p + prevOff] = nil, ![p + nextOff] = head]
        m2 == IF head # nil THEN [m1 EXCEPT ![head + prevOff] = p] ELSE m1
        m3 == [m2 EXCEPT ![pg + usedOff] = @ - 1]
        a2 == [a1 EXCEPT !.mem = m3, !.lists[log] = p]
    IN
    IF m3[pg + usedOff] # 0
    THEN [a |-> a2, err |-> FALSE, sys |-> FALSE]
    ELSE
    LET a3 == Drain(a2, pg, log, 0)
        a4 == IF a3.pages[log] = pg THEN [a3 EXCEPT !.pages[log] = nil]
              ELSE a3
    IN UnsafeRelease(a4, pg, ok)

UnsafeUsableSize(m, p) ==
    IF p = nil THEN 0
    ELSE LET pg == AndNot(p, pageMask) IN
         IF m[pg + logOff] # 0 THEN 2 ^ m[pg + logOff]
         ELSE m[pg + sizeOff] - headerSize

\* the first n bytes at p, as a slice
Bytes(p, n) == [Data |-> p, Len |-> n, Cap |-> n]

UnsafeRealloc(a, p, size, choice, ok) ==
    IF p = nil
    THEN LET r == UnsafeMalloc(a, size, choice) IN
         [a |-> r.a, p |-> r.p, err |-> r.err, valid |-> r.valid,
          sys |-> r.sys, usys |-> FALSE, merr |-> r.err, kind |-> "malloc",
          path |-> r.path, log |-> r.log]
    ELSE IF size = 0
    THEN LET f == UnsafeFree(a, p, ok) IN
         [a |-> f.a, p |-> nil, err |-> f.err, valid |-> TRUE,
          sys |-> FALSE, usys |-> f.sys, merr |-> FALSE, kind |-> "free",
          path |-> "none", log |-> 0]
    ELSE
    LET us == UnsafeUsableSize(a.mem, p) IN
    IF us > size
    THEN [a |-> a, p |-> p, err |-> FALSE, valid |-> TRUE, sys |-> FALSE,
          usys |-> FALSE, merr |-> FALSE, kind |-> "same", path |-> "none",
          log |-> 0]
    ELSE
    LET r == UnsafeMalloc(a, size, choice) IN
    IF r.err
    THEN [a |-> r.a, p |-> nil, err |-> TRUE, valid |-> r.valid,
          sys |-> r.sys, usys |-> FALSE, merr |-> TRUE, kind |-> "fail",
          path |-> "none", log |-> 0]
    ELSE
    LET n == IF us < size THEN us ELSE size
        a1 == [r.a EXCEPT !.mem = copy(@, Bytes(r.p, n), Bytes(p, n))]
        f == UnsafeFree(a1, p, ok)
    IN [a |-> f.a, p |-> r.p, err |-> f.err, valid |-> r.valid,
        sys |-> r.sys, usys |-> f.sys, merr |-> FALSE, kind |-> "moved",
        path |-> r.path, log |-> r.log]

----------------------------------------------------------------------------
(* The caller *)

Snapshot(m, b) == [i \in 1 .. NWords(b.Len) |-> m[b.Data + WordSize * (i - 1)]]

\* What the caller keeps of a region: the slice, the contents it expects to
\* read back, and how the region was obtained.
Rec(m, b, path, k, req) ==
    [b |-> b, data |-> Snapshot(m, b), path |-> path, k |-> k, req |-> req]

Held == BagToSet(live)

Install(a) ==
    /\ ~panicked
    /\ panicked' = FALSE
    /\ nops < MaxOps
    /\ nops' = nops + 1
    /\ probe' = probe
    /\ cap' = a.cap
    /\ lists' = a.lists
    /\ pages' = a.pages
    /\ allocs' = a.allocs
    /\ bytes' = a.bytes
    /\ mmaps' = a.mmaps
    /\ regs' = a.regs
    /\ mem' = a.mem
    /\ vm' = a.vm

NoProbe == [size |-> 0, log |-> 0 - 1]

\* the zero-value Allocator and a caller that holds nothing
InitAllocator ==
    /\ cap = [l \in Logs |-> 0]
    /\ lists = [l \in Logs |-> nil]
    /\ pages = [l \in Logs |-> nil]
    /\ allocs = 0
    /\ bytes = 0
    /\ mmaps = 0
    /\ regs = {}
    /\ mem = [w \in Words |-> 0]
    /\ vm = {}
    /\ live = EmptyBag
    /\ nfail = 0
    /\ nufail = 0
    /\ nops = 0
    /\ panicked = FALSE

Init ==
    /\ InitAllocator
    /\ probe = NoProbe

\* Malloc, after which the caller writes its data into the region (test1).
DoMalloc(size, choice) ==
    /\ BagCardinality(live) < MaxLive
    /\ \E r \in {Malloc(St, size, choice)} :
       LET m == Fill(r.a.mem, r.b.Data, r.b.Len, StoreVal) IN
       /\ r.valid
       /\ r.sys \/ choice = nil
       /\ r.err => nfail < MaxFail
       /\ Install([r.a EXCEPT !.mem = IF r.err THEN @ ELSE m])
       /\ nfail' = IF r.err THEN nfail + 1 ELSE nfail
       /\ live' = IF r.err \/ r.b.Cap = 0 THEN live
                  ELSE live (+) SetToBag({Rec(m, r.b, r.path, r.log, size)})
       /\ UNCHANGED nufail

DoCalloc(size, choice) ==
    /\ BagCardinality(live) < MaxLive
    /\ \E r \in {Calloc(St, size, choice)} :
       /\ r.valid
       /\ r.sys \/ choice = nil
       /\ r.err => nfail < MaxFail
       /\ Install(r.a)
       /\ nfail' = IF r.err THEN nfail + 1 ELSE nfail
       /\ live' = IF r.err \/ r.b.Cap = 0 THEN live
                  ELSE live (+) SetToBag({Rec(r.a.mem, r.b, r.path, r.log, size)})
       /\ UNCHANGED nufail

DoFree(x, ok) ==
    /\ x \in Held
    /\ \E r \in {Free(St, x.b, ok)} :
       /\ r.sys \/ ok
       /\ r.err => nufail < MaxUnmapFail
       /\ Install(r.a)
       /\ nufail' = IF r.err THEN nufail + 1 ELSE nufail
       /\ live' = live (-) SetToBag({x})
       /\ UNCHANGED nfail

\* the state a panic leaves behind
Crash(a) ==
    /\ ~panicked
    /\ panicked' = TRUE
    /\ nops < MaxOps
    /\ nops' = nops + 1
    /\ probe' = probe
    /\ cap' = a.cap
    /\ lists' = a.lists
    /\ pages' = a.pages
    /\ allocs' = a.allocs
    /\ bytes' = a.bytes
    /\ mmaps' = a.mmaps
    /\ regs' = a.regs
    /\ mem' = a.mem
    /\ vm' = a.vm

\* Free(b[:0]) of a held region (TestFree, TestMalloc)
DoFreeResliced(x, ok) ==
    /\ x \in Held
    /\ \E r \in {Free(St, [x.b EXCEPT !.Len = 0], ok)} :
       /\ r.sys \/ ok
       /\ r.err => nufail < MaxUnmapFail
       /\ IF r.panic THEN Crash(r.a) ELSE Install(r.a)
       /\ nufail' = IF r.err THEN nufail + 1 ELSE nufail
       /\ live' = live (-) SetToBag({x})
       /\ UNCHANGED nfail

\* Free of a slice without capacity, such as the result of Malloc(0), by the
\* Free of src/memory.go
DoFreeEmpty ==
    \E r \in {Free(St, NilSlice, TRUE)} :
       /\ IF r.panic THEN Crash(r.a) ELSE Install(r.a)
       /\ UNCHANGED <<live, nfail, nufail>>

\* the same call in the revision with the registry
DoFreeEmptyChecked ==
    \E r \in {FreeChecked(St, NilSlice, TRUE)} :
       /\ IF r.panic THEN Crash(r.a) ELSE Install(r.a)
       /\ UNCHANGED <<live, nfail, nufail>>

\* Close; the caller lets go of every region it held.
DoClose(fails) ==
    /\ fails \subseteq regs
    /\ nufail + Cardinality(fails) <= MaxUnmapFail
    /\ \E r \in {Close(St, fails)} :
       /\ Install(r.a)
       /\ nufail' = nufail + Cardinality(fails)
       /\ live' = EmptyBag
       /\ UNCHANGED nfail

DoRealloc(x, size, choice, ok) ==
    /\ x \in Held
    /\ \E r \in {Realloc(St, x.b, size, choice, ok)} :
       LET rest == live (-) SetToBag({x}) IN
       /\ r.valid
       /\ r.sys \/ choice = nil
       /\ r.usys \/ ok
       /\ r.merr => nfail < MaxFail
       /\ (r.err /\ ~r.merr) => nufail < MaxUnmapFail
       /\ Install(r.a)
       /\ nfail' = IF r.merr THEN nfail + 1 ELSE nfail
       /\ nufail' = IF r.err /\ ~r.merr THEN nufail + 1 ELSE nufail
       /\ live' =
            CASE r.kind = "fail" -> live
              [] r.kind = "free" -> rest
              [] r.kind = "same" ->
                    rest (+) SetToBag({Rec(r.a.mem, r.b, x.path, x.k, size)})
              [] OTHER ->
                    rest (+) SetToBag({Rec(r.a.mem, r.b, r.path, r.log, size)})

Next ==
    \/ \E size \in Sizes, choice \in Bases \cup {nil} : DoMalloc(size, choice)
    \/ \E size \in Sizes, choice \in Bases \cup {nil} : DoCalloc(size, choice)
    \/ \E x \in Held, ok \in BOOLEAN : DoFree(x, ok)
    \/ \E x \in Held, size \in Sizes, choice \in Bases \cup {nil},
          ok \in BOOLEAN : DoRealloc(x, size, choice, ok)

Spec == Init /\ [][Next]_vars

\* Every request size up to one page and a byte, one region at a time,
\* each returned to the system before the next is taken.
AllSizes == 0 .. (pageSize + 1)

NextSizes ==
    \/ \E size \in AllSizes, choice \in Bases \cup {nil} :
          live = EmptyBag /\ DoMalloc(size, choice)
    \/ \E x \in Held : DoFree(x, TRUE)

SpecSizes == Init /\ [][NextSizes]_vars

\* The interleavings in which no Malloc fails: a map call can only fail
\* inside a Realloc.
NextRealloc ==
    \/ \E size \in Sizes, choice \in Bases \cup {nil} :
          DoMalloc(size, choice) /\ nfail' = nfail
    \/ \E x \in Held, ok \in BOOLEAN : DoFree(x, ok)
    \/ \E x \in Held, size \in Sizes, choice \in Bases \cup {nil},
          ok \in BOOLEAN : DoRealloc(x, size, choice, ok)

SpecRealloc == Init /\ [][NextRealloc]_vars

\* Malloc and Free as TestFree and TestMalloc call them: a held region is
\* freed resliced to no length; and Free of no region at all.
NextEmpty ==
    \/ \E size \in Sizes, choice \in Bases \cup {nil} : DoMalloc(size, choice)
    \/ \E x \in Held, ok \in BOOLEAN : DoFreeResliced(x, ok)
    \/ DoFreeEmpty
    \/ DoFreeEmptyChecked

SpecEmpty == Init /\ [][NextEmpty]_vars

\* The allocator of the revision with the registry, with Close.
NextClose ==
    \/ \E size \in Sizes, choice \in Bases \cup {nil} : DoMalloc(size, choice)
    \/ \E x \in Held, ok \in BOOLEAN : DoFree(x, ok)
    \/ \E fails \in SUBSET regs : DoClose(fails)

SpecClose == Init /\ [][NextClose]_vars

\* One request size per run, drawn at the start: the class index is computed
\* for it, and regions of that size are allocated and freed.
InitClass ==
    /\ InitAllocator
    /\ \E n \in 1 .. MaxProbe : probe = [size |-> n, log |-> 0 - 1]

Classify ==
    /\ probe.log < 0
    /\ probe' = [probe EXCEPT !.log = classOf(probe.size)]
    /\ UNCHANGED <<cap, lists, pages, allocs, bytes, mmaps, regs, mem, vm,
                   live, nfail, nufail, nops, panicked>>

NextClass ==
    \/ Classify
    \/ \E choice \in Bases \cup {nil} : DoMalloc(probe.size, choice)
    \/ \E x \in Held : DoFree(x, TRUE)

SpecClass == InitClass /\ [][NextClass]_vars

\* What the caller knows of a region it holds by pointer: its address, the
\* size it asked for and the usable size.
PtrSlice(m, p, size) ==
    [Data |-> p, Len |-> size, Cap |-> UnsafeUsableSize(m, p)]

DoUnsafeMalloc(size, choice) ==
    /\ BagCardinality(live) < MaxLive
    /\ \E r \in {UnsafeMalloc(St, size, choice)} :
       LET m == Fill(r.a.mem, r.p, size, StoreVal) IN
       /\ r.valid
       /\ r.sys \/ choice = nil
       /\ r.err => nfail < MaxFail
       /\ Install([r.a EXCEPT !.mem = IF r.err \/ r.p = nil THEN @ ELSE m])
       /\ nfail' = IF r.err THEN nfail + 1 ELSE nfail
       /\ live' = IF r.err \/ r.p = nil THEN live
                  ELSE live (+) SetToBag({Rec(m, PtrSlice(m, r.p, size),
                                              r.path, r.log, size)})
       /\ UNCHANGED nufail

DoUnsafeCalloc(size, choice) ==
    /\ BagCardinality(live) < MaxLive
    /\ \E r \in {UnsafeCalloc(St, size, choice)} :
       /\ r.valid
       /\ r.sys \/ choice = nil
       /\ r.err => nfail < MaxFail
       /\ Install(r.a)
       /\ nfail' = IF r.err THEN nfail + 1 ELSE nfail
       /\ live' = IF r.err \/ r.p = nil THEN live
                  ELSE live (+) SetToBag({Rec(r.a.mem,
                                              PtrSlice(r.a.mem, r.p, size),
                                              r.path, r.log, size)})
       /\ UNCHANGED nufail

DoUnsafeFree(x, ok) ==
    /\ x \in Held
    /\ \E r \in {UnsafeFree(St, x.b.Data, ok)} :
       /\ r.sys \/ ok
       /\ r.err => nufail < MaxUnmapFail
       /\ Install(r.a)
       /\ nufail' = IF r.err THEN nufail + 1 ELSE nufail
       /\ live' = live (-) SetToBag({x})
       /\ UNCHANGED nfail

\* UnsafeFree(nil)
DoUnsafeFreeNil ==
    \E r \in {UnsafeFree(St, nil, TRUE)} :
       /\ Install(r.a)
       /\ UNCHANGED <<live, nfail, nufail>>

DoUnsafeRealloc(x, size, choice, ok) ==
    /\ x \in Held
    /\ FreeBase(vm, choice)
    /\ \E r \in {UnsafeRealloc(St, x.b.Data, size, choice, ok)} :
       LET rest == live (-) SetToBag({x}) IN
       /\ r.valid
       /\ r.sys \/ choice = nil
       /\ r.usys \/ ok
       /\ r.merr => nfail < MaxFail
       /\ (r.err /\ ~r.merr) => nufail < MaxUnmapFail
       /\ Install(r.a)
       /\ nfail' = IF r.merr THEN nfail + 1 ELSE nfail
       /\ nufail' = IF r.err /\ ~r.merr THEN nufail + 1 ELSE nufail
       /\ live' =
            CASE r.kind = "fail" -> live
              [] r.kind = "free" -> rest
              [] r.kind = "same" ->
                    rest (+) SetToBag({Rec(r.a.mem,
                                           PtrSlice(r.a.mem, r.p, size),
                                           x.path, x.k, size)})
              [] OTHER ->
                    rest (+) SetToBag({Rec(r.a.mem,
                                           PtrSlice(r.a.mem, r.p, size),
                                           r.path, r.log, size)})

\* The pointer API in the interleavings of test3.
NextUnsafe ==
    \/ \E size \in Sizes, choice \in Bases \cup {nil} :
          DoUnsafeMalloc(size, choice)
    \/ \E size \in Sizes, choice \in Bases \cup {nil} :
          DoUnsafeCalloc(size, choice)
    \/ \E x \in Held, ok \in BOOLEAN : DoUnsafeFree(x, ok)
    \/ DoUnsafeFreeNil

SpecUnsafe == Init /\ [][NextUnsafe]_vars

NextUnsafeRealloc ==
    \/ \E size \in Sizes, choice \in Bases \cup {nil} :
          DoUnsafeMalloc(size, choice)
    \/ \E x \in Held, ok \in BOOLEAN : DoUnsafeFree(x, ok)
    \/ \E x \in Held, size \in Sizes, choice \in Bases \cup {nil},
          ok \in BOOLEAN : DoUnsafeRealloc(x, size, choice, ok)

SpecUnsafeRealloc == Init /\ [][NextUnsafeRealloc]_vars

----------------------------------------------------------------------------
(* Vocabulary of the properties, independent of the code's bit tricks *)

PageBase(addr) == addr - (addr % pageSize)

HdrLog(x) == mem[PageBase(x.b.Data) + logOff]

RoundA(n) == ((n + mallocAllign - 1) \div mallocAllign) * mallocAllign

\* least k with 2^k >= n
CeilLog2(n) ==
    CHOOSE k \in 0 .. (PageShift + 2) :
        (2 ^ k >= n) /\ (\A j \in 0 .. (k - 1) : 2 ^ j < n)

Overlap(a1, n1, a2, n2) == a1 < a2 + n2 /\ a2 < a1 + n1

RECURSIVE ListFrom(_, _, _)
ListFrom(m, n, fuel) ==
    IF n = nil \/ n \notin Words \/ fuel = 0 THEN <<>>
    ELSE <<n>> \o ListFrom(m, m[n + nextOff], fuel - 1)

FreeList(k) == ListFrom(mem, lists[k], Cardinality(Words))

FreeNodes(k) == {FreeList(k)[i] : i \in DOMAIN FreeList(k)}

MappingAt(p) == {m \in vm : m.base = p}

RECURSIVE SumSizes(_)
SumSizes(ms) ==
    IF ms = {} THEN 0
    ELSE LET m == CHOOSE m \in ms : TRUE IN m.size + SumSizes(ms \ {m})

OwnedMappings == {m \in vm : m.base \in regs}

----------------------------------------------------------------------------
(* C1 *)

\* C1: every region the caller holds still reads back exactly what the caller
\* last put there, whatever pushes, pops, drains and header updates the
\* allocator has done since.
C1_ContentsKept == \A x \in Held : Snapshot(mem, x.b) = x.data

\* a popped region and a bump-carved one are held while another slot of the
\* same class sits on the free list
C1_Witness ==
    \E x \in Held, y \in Held :
        /\ x.path = "pop" /\ y.path = "bump" /\ x.k = y.k
        /\ lists[x.k] # nil
        /\ \E i \in DOMAIN x.data : x.data[i] = StoreVal

----------------------------------------------------------------------------
(* C2 *)

\* C2: no two held regions share a byte of their capacity, and no held region
\* overlaps the header of an owned mapping or a slot that is on a free list.
C2_Disjoint ==
    /\ \A x \in Held : CopiesIn(x, live) = 1
    /\ \A x \in Held, y \in Held :
          x # y => ~Overlap(x.b.Data, x.b.Cap, y.b.Data, y.b.Cap)
    /\ \A x \in Held, p \in regs :
          ~Overlap(x.b.Data, x.b.Cap, p, headerSize)
    /\ \A x \in Held, k \in Logs :
          \A n \in FreeNodes(k) : ~Overlap(x.b.Data, x.b.Cap, n, 2 ^ k)

\* two regions of one shared page are held, one of them reissued from the
\* free list, next to a region on a solo page
C2_Witness ==
    \E x \in Held, y \in Held, z \in Held :
        /\ x # y
        /\ x.path = "pop" /\ y.path # "large" /\ z.path = "large"
        /\ PageBase(x.b.Data) = PageBase(y.b.Data)

----------------------------------------------------------------------------
(* C3 *)

\* C3: when no Malloc has failed and every region handed out has been freed,
\* allocs, mmaps and bytes are all zero.
C3_AllFreedZero ==
    (live = EmptyBag /\ nfail = 0) => (allocs = 0 /\ mmaps = 0 /\ bytes = 0)

\* everything has been freed after a shared page was minted and used
C3_Witness ==
    /\ live = EmptyBag /\ nfail = 0
    /\ \E k \in Logs : cap[k] # 0
    /\ nops >= 4

----------------------------------------------------------------------------
(* C4 *)

\* C4: a step in which the map primitive fails leaves allocs, mmaps, bytes,
\* pages, lists and every page header as they were.
C4_FailedMapKeepsState ==
    [][nfail' > nfail =>
          /\ allocs' = allocs /\ mmaps' = mmaps /\ bytes' = bytes
          /\ pages' = pages /\ lists' = lists /\ mem' = mem]_vars

----------------------------------------------------------------------------
(* C5 *)

\* C5: allocs is the number of regions held, mmaps the number of mappings
\* the allocator owns and bytes the sum of their lengths.
C5_CountersExact ==
    /\ allocs = BagCardinality(live)
    /\ mmaps = Cardinality(OwnedMappings)
    /\ bytes = SumSizes(OwnedMappings)

----------------------------------------------------------------------------
(* C6 *)

\* C6 (as claimed): a request whose size rounded up to A is half a page is
\* served from a shared page, one byte more from a solo page.
C6_HalfPageShared ==
    \A x \in Held :
        /\ RoundA(x.req) = pageSize \div 2 =>
              (HdrLog(x) > 0 /\ 2 ^ HdrLog(x) = pageSize \div 2)
        /\ x.req = pageSize \div 2 + 1 => HdrLog(x) = 0

\* C6 (amended): a request whose size rounded up to A is half a page is
\* served by a solo page (header log 0), as is one of half a page plus one
\* byte; the largest rounded size served from a shared page is a quarter page.
C6_HalfPageSolo ==
    \A x \in Held :
        /\ RoundA(x.req) = pageSize \div 2 => HdrLog(x) = 0
        /\ x.req = pageSize \div 2 + 1 => HdrLog(x) = 0
        /\ RoundA(x.req) = pageSize \div 4 =>
              (HdrLog(x) > 0 /\ 2 ^ HdrLog(x) = pageSize \div 4)
        /\ HdrLog(x) > 0 => RoundA(x.req) <= pageSize \div 4

\* a request that rounds to exactly half a page is held
C6_Witness ==
    \E x \in Held : RoundA(x.req) = pageSize \div 2 /\ x.b.Len = x.req

----------------------------------------------------------------------------
(* C7 *)

Log2A == CeilLog2(mallocAllign)

----------------------------------------------------------------------------
(* C8 *)

\* C8: the usable size of a held region is at least the size requested; it is
\* 2^k for a slot of class k and the mapping's length less the header for a
\* solo page; the usable size of nil is 0.
C8_UsableSize ==
    /\ UsableSize(mem, nil) = 0
    /\ \A x \in Held :
          /\ UsableSize(mem, x.b.Data) >= x.req
          /\ x.path # "large" => UsableSize(mem, x.b.Data) = 2 ^ x.k
          /\ x.path = "large" =>
                \E m \in MappingAt(PageBase(x.b.Data)) :
                    UsableSize(mem, x.b.Data) = m.size - headerSize

\* a solo-page region and a partly used slot are held together
C8_Witness ==
    \E x \in Held, y \in Held :
        /\ x.path = "large" /\ UsableSize(mem, x.b.Data) > x.req
        /\ y.path # "large" /\ UsableSize(mem, y.b.Data) > y.req

----------------------------------------------------------------------------
(* C9 *)

\* C9: every held region starts at a multiple of A, at least headerSize bytes
\* into its allocator page.
C9_Aligned ==
    \A x \in Held :
        /\ x.b.Data % mallocAllign = 0
        /\ x.b.Data % pageSize >= headerSize

\* a bump-carved, a popped and a solo-page region are held together
C9_Witness ==
    \E x \in Held, y \in Held, z \in Held :
        x.path = "bump" /\ y.path = "pop" /\ z.path = "large"

----------------------------------------------------------------------------
(* C10 *)

\* C10: the page base of every held region is the base of a mapping the
\* allocator owns, and the log field of that header is 0 exactly for a region
\* of the large path and the region's class otherwise.
C10_HeaderRecovery ==
    \A x \in Held :
        /\ PageBase(x.b.Data) \in regs
        /\ MappingAt(PageBase(x.b.Data)) # {}
        /\ (HdrLog(x) = 0) <=> (x.path = "large")
        /\ x.path # "large" => HdrLog(x) = x.k

\* a slot and a solo-page region are held, each in a mapping of its own
C10_Witness ==
    \E x \in Held, y \in Held :
        /\ x.path # "large" /\ y.path = "large"
        /\ nops >= 4 /\ Cardinality(regs) = 2

----------------------------------------------------------------------------
(* C11 *)

\* The region a step takes out of the caller's hands and the one it puts
\* there instead, at another address: only a Realloc that moves does this.
Moved(x, y) ==
    /\ x \in Held /\ x \notin Held'
    /\ y \in Held' /\ y \notin Held
    /\ x.b.Data # y.b.Data

\* x is given back by the step the way Free gives it back: a solo page
\* leaves the accounting and the address space; a slot is the new head of
\* its class's list with its page's used count one lower, or else it was the
\* last slot in use and its page leaves the accounting and the address space.
ReleasedAsFree(x) ==
    LET p == PageBase(x.b.Data) IN
    IF x.path = "large"
    THEN /\ p \notin regs'
         /\ \A m \in vm' : m.base # p
         /\ \E m \in MappingAt(p) : m.size = mem[p + sizeOff]
    ELSE \/ /\ mem[p + usedOff] > 1
            /\ p \in regs'
            /\ lists'[x.k] = x.b.Data
            /\ mem'[x.b.Data + prevOff] = nil
            /\ mem'[x.b.Data + nextOff] = lists[x.k]
            /\ mem'[p + usedOff] = mem[p + usedOff] - 1
         \/ /\ mem[p + usedOff] = 1
            /\ p \notin regs'
            /\ \A m \in vm' : m.base # p
            /\ LET l == ListFrom(mem', lists'[x.k], Cardinality(Words)) IN
               \A i \in DOMAIN l : PageBase(l[i]) # p

\* C11: a Realloc beyond the capacity of a held region that succeeds hands
\* out a region of the new length at another address whose first
\* min(old length, n) bytes are those of the old region before the call,
\* gives the old region back the way Free does and leaves allocs as it was.
C11_ReallocGrow ==
    [][\A x \in Held : \A y \in Held' :
          (Moved(x, y) /\ nufail' = nufail) =>
              /\ y.req > x.b.Cap /\ x.b.Cap > 0
              /\ y.b.Len = y.req
              /\ \A i \in 1 .. NWords(x.b.Len) :
                    /\ mem'[y.b.Data + WordSize * (i - 1)]
                          = mem[x.b.Data + WordSize * (i - 1)]
                    /\ y.data[i] = x.data[i]
              /\ ReleasedAsFree(x)
              /\ allocs' = allocs]_vars

\* a solo-page region is held whose first words are what the caller stored
\* in a slot and whose tail was never written: the result of a Realloc that
\* grew a slot past its capacity
C11_Witness ==
    \E y \in Held :
        /\ y.path = "large" /\ y.req > maxSlotSize
        /\ y.data[1] = StoreVal
        /\ y.data[NWords(y.req)] # StoreVal

----------------------------------------------------------------------------
(* C12 *)

\* C12: a Realloc of a held region to a size that is positive and within its
\* capacity returns the same start address with the new length and touches
\* nothing: no mapping appears or goes, no counter, list head, current page
\* or word of memory (page headers, list nodes, contents) changes.
C12_ReallocInPlace ==
    [][\A x \in Held, size \in Sizes :
          (0 < size /\ size <= x.b.Cap /\ DoRealloc(x, size, nil, TRUE)) =>
              /\ UNCHANGED <<cap, lists, pages, allocs, bytes, mmaps, regs,
                             mem, vm, nfail, nufail>>
              /\ BagCardinality(live') = BagCardinality(live)
              /\ \E y \in Held' :
                    /\ y.b.Data = x.b.Data
                    /\ y.b.Len = size
                    /\ y.b.Cap = x.b.Cap
                    /\ y.data = Snapshot(mem, [x.b EXCEPT !.Len = size])
                    /\ (size # x.b.Len => x \notin Held')]_vars

\* a solo-page region is held with a length below its capacity: it was
\* shrunk in place
C12_Witness ==
    \E y \in Held : y.path = "large" /\ 0 < y.b.Len /\ y.b.Len < y.b.Cap

----------------------------------------------------------------------------
(* C13 *)

\* C13: when the allocation inside a growing Realloc fails, Realloc reports
\* the error and returns no region, the old region is not given back (it is
\* not on a free list, its page keeps its used count and its mapping) and
\* the caller still holds every region it held, each with its contents.
C13_ReallocFailKeeps ==
    [][\A x \in Held, size \in Sizes :
          (size > x.b.Cap /\ DoRealloc(x, size, nil, TRUE)) =>
              LET r == Realloc(St, x.b, size, nil, TRUE)
                  p == PageBase(x.b.Data)
              IN
              /\ r.err /\ r.b = NilSlice
              /\ nfail' = nfail + 1
              /\ live' = live
              /\ mem' = mem
              /\ \A z \in Held' : Snapshot(mem', z.b) = z.data
              /\ UNCHANGED <<lists, pages, mmaps, bytes, regs, vm>>
              /\ p \in regs' /\ MappingAt(p) # {}
              /\ \A k \in Logs :
                    LET l == ListFrom(mem', lists'[k], Cardinality(Words)) IN
                    \A i \in DOMAIN l : l[i] # x.b.Data]_vars

\* the one map call that failed was the one inside a Realloc (no Malloc
\* fails in SpecRealloc), and the slot it was to replace is still held with
\* what the caller stored in it
C13_Witness ==
    /\ nfail = 1
    /\ \E x \in Held :
          /\ x.path # "large"
          /\ x.data[1] = StoreVal
          /\ Snapshot(mem, x.b) = x.data
    /\ \E z \in Held : z.path = "large"

----------------------------------------------------------------------------
(* C14 *)

AllocatorState == <<cap, lists, pages, allocs, bytes, mmaps, regs, mem, vm>>

\* C14: Malloc(0) returns the empty region and no error and changes nothing
\* in the allocator; Free of that empty region returns nil (it does not
\* panic) and changes nothing in the allocator either.
C14_EmptyNoOp ==
    [][/\ DoMalloc(0, nil) =>
             /\ Malloc(St, 0, nil).b = NilSlice
             /\ ~Malloc(St, 0, nil).err
             /\ UNCHANGED AllocatorState
             /\ live' = live
       /\ (DoFreeEmpty \/ DoFreeEmptyChecked) =>
             /\ ~panicked'
             /\ UNCHANGED AllocatorState]_vars

----------------------------------------------------------------------------
(* C15 *)

\* C15: a Free of a region without capacity leaves allocs, mmaps and bytes
\* as they were.
C15_EmptyFreeCounters ==
    [][(DoFreeEmpty \/ DoFreeEmptyChecked) =>
          UNCHANGED <<allocs, mmaps, bytes>>]_vars

----------------------------------------------------------------------------
(* C16 *)

\* C16: Free of a held region resliced to no length does what Free of the
\* region itself does: the step is the step Free(b) would take, the region
\* is given back (slot on its list or page unmapped), allocs goes down by
\* one, and when it was the only region of an allocator without leaks all
\* three counters are zero afterwards.
C16_FreeByCapacity ==
    [][\A x \in Held, ok \in BOOLEAN :
          DoFreeResliced(x, ok) =>
              /\ DoFree(x, ok)
              /\ ~panicked'
              /\ x \notin Held'
              /\ allocs' = allocs - 1
              /\ nufail' = nufail => ReleasedAsFree(x)
              /\ (BagCardinality(live) = 1 /\ allocs = 1) =>
                    (allocs' = 0 /\ mmaps' = 0 /\ bytes' = 0)]_vars

\* TestFree: after Malloc of a slot and Free of it resliced to no length
\* (the only Free of a held region in SpecEmpty) the counters are zero and
\* nothing is mapped
C16_Witness ==
    /\ nops = 2 /\ ~panicked
    /\ \E k \in Logs : cap[k] # 0
    /\ live = EmptyBag
    /\ allocs = 0 /\ mmaps = 0 /\ bytes = 0
    /\ vm = {}

----------------------------------------------------------------------------
(* C17 *)

\* C17: a Free (also the one Realloc(b, 0) stands for) calls unmap exactly
\* when the region is alone on a solo page or is the last slot in use of its
\* shared page; it then calls it for that one mapping, which the allocator
\* owned until then, and takes one off mmaps; any other Free leaves the
\* mappings, the registry and mmaps alone.  A base that has left the
\* registry is never passed to unmap again: every base unmapped is in regs
\* before the call and out of it after.
C17_UnmapExactlyWhenEmpty ==
    [][\A x \in Held, ok \in BOOLEAN :
          (live' # live /\ (DoFree(x, ok) \/ DoRealloc(x, 0, nil, ok))) =>
              LET p == PageBase(x.b.Data)
                  last == x.path = "large" \/ mem[p + usedOff] = 1
              IN
              IF last
              THEN /\ p \in regs /\ Cardinality(MappingAt(p)) = 1
                   /\ regs' = regs \ {p}
                   /\ mmaps' = mmaps - 1
                   /\ \/ vm' = vm \ MappingAt(p) /\ nufail' = nufail
                      \/ vm' = vm /\ nufail' = nufail + 1
              ELSE /\ vm' = vm /\ regs' = regs /\ mmaps' = mmaps
                   /\ nufail' = nufail]_vars

\* two slots of a shared page were handed out and freed, the first Free
\* keeping the page and the second giving it back: nothing is mapped any
\* more and no unmap failed
C17_Witness ==
    /\ nops = 4 /\ nfail = 0 /\ nufail = 0
    /\ \E k \in Logs : cap[k] # 0 /\ lists[k] = nil /\ pages[k] = nil
    /\ regs = {} /\ vm = {} /\ mmaps = 0 /\ allocs = 0

----------------------------------------------------------------------------
(* C18 *)

IsZeroValue(a) ==
    /\ a.cap = [l \in Logs |-> 0]
    /\ a.lists = [l \in Logs |-> nil]
    /\ a.pages = [l \in Logs |-> nil]
    /\ a.allocs = 0 /\ a.bytes = 0 /\ a.mmaps = 0
    /\ a.regs = {}

----------------------------------------------------------------------------
(* C19 *)

\* C19: when unmap fails in a Free, Free returns the error and the allocator
\* is nevertheless what a successful Free would have left: allocs one lower,
\* the mapping out of mmaps, bytes and the registry, none of its slots on a
\* free list and no pages[k] pointing to it.  Only the address space differs:
\* the mapping is still there.
C19_UnmapFailureStillFrees ==
    [][\A x \in Held :
          (nufail' # nufail /\ DoFree(x, FALSE)) =>
              LET p == PageBase(x.b.Data)
                  f == Free(St, x.b, FALSE)
                  g == Free(St, x.b, TRUE)
              IN
              /\ f.err /\ ~g.err
              /\ nufail' = nufail + 1
              /\ allocs' = allocs - 1
              /\ mmaps' = mmaps - 1
              /\ \E m \in MappingAt(p) : bytes' = bytes - m.size
              /\ regs' = regs \ {p}
              /\ \A k \in Logs :
                    /\ pages'[k] # p
                    /\ LET l == ListFrom(mem', lists'[k], Cardinality(Words))
                       IN \A i \in DOMAIN l : PageBase(l[i]) # p
              /\ <<cap', lists', pages', allocs', bytes', mmaps', regs'>>
                    = <<g.a.cap, g.a.lists, g.a.pages, g.a.allocs,
                        g.a.bytes, g.a.mmaps, g.a.regs>>
              /\ vm' = vm /\ MappingAt(p) # {}]_vars

\* a shared page was drained by a Free whose unmap the OS refused: its
\* mapping is still in the address space, out of the registry and the
\* counters, and the allocator is still in use
C19_Witness ==
    /\ nufail = 1
    /\ \E m \in vm :
          /\ m.base \notin regs
          /\ mem[m.base + logOff] # 0
          /\ cap[mem[m.base + logOff]] # 0
    /\ mmaps = Cardinality(regs)
    /\ Held # {}

----------------------------------------------------------------------------
(* C20 *)

RoundTo(n, m) == ((n + m - 1) \div m) * m

\* the mapping that holds a held region
MappingOf(x) == CHOOSE m \in vm : m.base = PageBase(x.b.Data)

----------------------------------------------------------------------------
(* C21 *)

\* the number of binary digits of n: the least j with 2^j > n
NumBits(n) ==
    CHOOSE j \in 0 .. (PageShift + 4) :
        (2 ^ j > n) /\ (\A i \in 0 .. (j - 1) : 2 ^ i <= n)

----------------------------------------------------------------------------
(* C22 *)

\* C22: a Calloc(n) step leaves the counters, pages, free lists, registry,
\* mappings and every memory word outside the returned region exactly as
\* Malloc(n) would from the same state, and the first n bytes of the
\* region it returns are zero, whatever the slot held before.
C22_CallocZeroed ==
    [][\A size \in Sizes, choice \in Bases \cup {nil} :
          (nops' # nops /\ DoCalloc(size, choice)) =>
              LET r == Malloc(St, size, choice) IN
              /\ cap' = r.a.cap /\ lists' = r.a.lists /\ pages' = r.a.pages
              /\ allocs' = r.a.allocs /\ bytes' = r.a.bytes
              /\ mmaps' = r.a.mmaps /\ regs' = r.a.regs /\ vm' = r.a.vm
              /\ \A w \in Words :
                    IF ~r.err /\ InRange(w, r.b.Data, size)
                    THEN mem'[w] = 0
                    ELSE mem'[w] = r.a.mem[w]
              /\ (r.err \/ size = 0) => live' = live
              /\ (~r.err /\ size > 0) =>
                    \E x \in Held' :
                        /\ live' = live (+) SetToBag({x})
                        /\ x.b = r.b /\ x.path = r.path
                        /\ \A i \in DOMAIN x.data : x.data[i] = 0]_vars

\* a zeroed region is held that was taken off a free list on which another
\* slot is still linked: before the call it held the link to that slot
C22_Witness ==
    \E x \in Held :
        /\ x.path = "pop" /\ x.req = mallocAllign
        /\ \A i \in DOMAIN x.data : x.data[i] = 0
        /\ lists[x.k] # nil

----------------------------------------------------------------------------
(* C23 *)

\* C23: an UnsafeRealloc(p, n) step on a held region with
\* 0 < n <= UnsafeUsableSize(p) returns p itself and changes nothing of the
\* allocator state.
C23_UnsafeReallocInPlace ==
    [][\A x \in Held, size \in Sizes \ {0}, choice \in Bases \cup {nil},
          ok \in BOOLEAN :
          (/\ nops' # nops
           /\ FreeBase(vm, choice)
           /\ size <= UnsafeUsableSize(mem, x.b.Data)
           /\ DoUnsafeRealloc(x, size, choice, ok)) =>
              /\ AllocatorState' = AllocatorState
              /\ \E y \in Held' :
                    /\ y.b.Data = x.b.Data
                    /\ live' = (live (-) SetToBag({x})) (+) SetToBag({y})]_vars

----------------------------------------------------------------------------
(* C24 *)

\* the slice the slice API hands out for the region x
SliceOf(x) ==
    [Data |-> x.b.Data, Len |-> x.req,
     Cap |-> IF x.path = "large" THEN x.req ELSE 2 ^ x.k]

\* the parts of an allocator value that the two APIs share
Shared(a) ==
    <<a.cap, a.lists, a.pages, a.allocs, a.bytes, a.mmaps, a.regs, a.mem, a.vm>>

\* C24: from every state the pointer API reaches, UnsafeMalloc, UnsafeCalloc
\* and UnsafeFree return the same address and error and leave the counters,
\* pages, lists, registry, mappings and memory (page headers and list links
\* included) exactly as Malloc, Calloc and Free of the same revision leave
\* them for the same argument; UnsafeFree(nil) changes nothing, as Free of an
\* empty slice.
C24_PointerTwin ==
    [][/\ \A size \in Sizes, choice \in Bases \cup {nil} :
             (/\ nops' # nops
              /\ FreeBase(vm, choice)
              /\ DoUnsafeMalloc(size, choice)) =>
                 LET r == Malloc(St, size, choice)
                     u == UnsafeMalloc(St, size, choice)
                 IN /\ Shared(u.a) = Shared(r.a)
                    /\ u.p = r.b.Data /\ u.err = r.err
                    /\ AllocatorState'
                          = Shared([r.a EXCEPT !.mem =
                                       Fill(@, r.b.Data, r.b.Len,
                                            IF r.err THEN 0 ELSE StoreVal)])
       /\ \A size \in Sizes, choice \in Bases \cup {nil} :
             (/\ nops' # nops
              /\ FreeBase(vm, choice)
              /\ DoUnsafeCalloc(size, choice)) =>
                 LET r == Calloc(St, size, choice)
                     u == UnsafeCalloc(St, size, choice)
                 IN /\ u.p = r.b.Data /\ u.err = r.err
                    /\ AllocatorState' = Shared(r.a)
       /\ \A x \in Held, ok \in BOOLEAN :
             (nops' # nops /\ DoUnsafeFree(x, ok)) =>
                 LET r == FreeChecked(St, SliceOf(x), ok) IN
                 /\ ~r.panic
                 /\ r.err = UnsafeFree(St, x.b.Data, ok).err
                 /\ AllocatorState' = Shared(r.a)
       /\ (nops' # nops /\ DoUnsafeFreeNil) =>
             /\ AllocatorState' = AllocatorState
             /\ Shared(FreeChecked(St, NilSlice, TRUE).a) = AllocatorState
             /\ ~FreeChecked(St, NilSlice, TRUE).panic]_vars

\* the pointer API has popped a slot from a free list and carved another
\* from a page, and holds a region on a solo page as well
C24_Witness ==
    \E x \in Held, y \in Held, z \in Held :
        /\ x.path = "pop" /\ y.path = "bump" /\ z.path = "large"
        /\ x.b.Cap = UnsafeUsableSize(mem, x.b.Data)
        /\ z.b.Cap = UnsafeUsableSize(mem, z.b.Data)
        /\ z.b.Cap > z.req

----------------------------------------------------------------------------
(* C25 *)

\* the shared pages the allocator holds
SharedPages == {p \in regs : mem[p + logOff] # 0}

\* the slots of page p that are on the free list of class k
ListedSlots(p, k) == {n \in FreeNodes(k) : PageBase(n) = p}

\* C25: in every state between public operations, every shared page the
\* allocator holds has used = brk - (number of its slots on the free list
\* of its class) and 1 <= used <= brk <= cap of its class, so no shared
\* page with used = 0 is left after a Free; a mapping that is not held by
\* the allocator exists only after the unmap primitive has failed.
C25_UsedBrkListed ==
    /\ \A p \in SharedPages :
          LET k == mem[p + logOff] IN
          /\ k \in Logs /\ cap[k] = pageAvail \div (2 ^ k)
          /\ mem[p + usedOff] = mem[p + brkOff] - Cardinality(ListedSlots(p, k))
          /\ 1 <= mem[p + usedOff]
          /\ mem[p + usedOff] <= mem[p + brkOff]
          /\ mem[p + brkOff] <= cap[k]
    /\ regs \subseteq {m.base : m \in vm}
    /\ (\E m \in vm : m.base \notin regs) => nufail > 0

\* a fully carved shared page with one slot in use and one on the free
\* list, next to a second shared page of the class, after a Free
C25_Witness ==
    \E p \in SharedPages, q \in SharedPages :
        /\ p # q
        /\ mem[p + brkOff] = cap[mem[p + logOff]]
        /\ mem[p + usedOff] = 1
        /\ Cardinality(ListedSlots(p, mem[p + logOff])) = 1
        /\ mem[q + logOff] = mem[p + logOff]

----------------------------------------------------------------------------
(* C26 *)

\* the slots carved so far from the shared page p of class k
Carved(p, k) ==
    {p + headerSize + i * (2 ^ k) : i \in 0 .. (mem[p + brkOff] - 1)}

NoRepeat(l) == \A i \in DOMAIN l, j \in DOMAIN l : l[i] = l[j] => i = j

----------------------------------------------------------------------------
(* C27 *)

\* C27: in every reachable state the free list of every class is a
\* well-formed doubly-linked list: the head's prev is nil, each node is the
\* prev of its successor, the list ends in nil and holds no node twice, and
\* every node is a carved slot of a shared page of that class which the
\* allocator still holds and which no caller holds.
C27_ListsWellFormed ==
    \A k \in Logs :
        LET l == FreeList(k) IN
        /\ lists[k] # nil => lists[k] \in Words /\ mem[lists[k] + prevOff] = nil
        /\ \A i \in DOMAIN l :
              /\ i < Len(l) => mem[l[i + 1] + prevOff] = l[i]
              /\ i = Len(l) => mem[l[i] + nextOff] = nil
        /\ NoRepeat(l)
        /\ \A n \in FreeNodes(k) :
              /\ k # 0
              /\ PageBase(n) \in regs
              /\ \E m \in vm : m.base = PageBase(n) /\ n + 2 ^ k <= m.base + m.size
              /\ mem[PageBase(n) + logOff] = k
              /\ n \in Carved(PageBase(n), k)
              /\ \A x \in Held : ~Overlap(x.b.Data, x.b.Cap, n, 2 ^ k)

\* a region taken off a free list is held while another node is on that
\* list, and a second shared page of the class exists
C27_Witness ==
    \E x \in Held :
        /\ x.path = "pop"
        /\ Len(FreeList(x.k)) >= 1
        /\ PageBase(lists[x.k]) # PageBase(x.b.Data)
        /\ mem[lists[x.k] + prevOff] = nil

----------------------------------------------------------------------------
(* C28 *)

\* C28: in every reachable state pages[k] is nil or the base of a mapping
\* the allocator holds, whose header has log = k and brk below the slot
\* capacity of class k.
C28_CurrentPage ==
    \A k \in Logs :
        pages[k] # nil =>
            /\ k # 0
            /\ pages[k] \in regs
            /\ MappingAt(pages[k]) # {}
            /\ mem[pages[k] + logOff] = k
            /\ mem[pages[k] + brkOff] < cap[k]

\* a class has a current page while another page of the class is fully
\* carved and a node is on the free list
C28_Witness ==
    \E k \in Logs, q \in SharedPages :
        /\ pages[k] # nil
        /\ q # pages[k]
        /\ mem[q + logOff] = k
        /\ mem[q + brkOff] = cap[k]
        /\ lists[k] # nil

----------------------------------------------------------------------------
(* C29 *)

\* C29: a Malloc or Calloc step served by class k, when pages[k] is set,
\* returns the slot at index brk of that page and leaves lists[k] as it
\* was, empty or not; when pages[k] is nil and lists[k] is not, it returns
\* the head of lists[k], the list loses exactly its head, used of the page
\* found by masking the head's address grows by one and nothing is mapped;
\* only when both are nil is a page mapped.  A Free that does not empty its
\* page puts the freed slot in front of the list and a Free that does
\* removes that page's nodes only, so the head is the slot freed last among
\* those listed.
C29_SlotChoice ==
    [][/\ \A size \in Sizes \ {0}, choice \in Bases \cup {nil} :
             (/\ nops' # nops
              /\ RoundA(size) <= maxSlotSize
              /\ DoMalloc(size, choice) \/ DoCalloc(size, choice)) =>
                 LET k == CeilLog2(RoundA(size))
                     p == pages[k]
                     n == lists[k]
                 IN
                 IF p # nil
                 THEN /\ FreeList(k)' = FreeList(k)
                      /\ <<mmaps', bytes', regs', vm'>> = <<mmaps, bytes, regs, vm>>
                      /\ \E y \in Held' :
                            /\ live' = live (+) SetToBag({y})
                            /\ y.b.Data
                                 = p + headerSize + mem[p + brkOff] * (2 ^ k)
                      /\ mem'[p + brkOff] = mem[p + brkOff] + 1
                      /\ mem'[p + usedOff] = mem[p + usedOff] + 1
                 ELSE IF n # nil
                 THEN /\ FreeList(k)' = Tail(FreeList(k))
                      /\ <<mmaps', bytes', regs', vm'>> = <<mmaps, bytes, regs, vm>>
                      /\ pages'[k] = nil
                      /\ \E y \in Held' :
                            /\ live' = live (+) SetToBag({y})
                            /\ y.b.Data = n
                      /\ mem'[PageBase(n) + usedOff]
                            = mem[PageBase(n) + usedOff] + 1
                      /\ mem'[PageBase(n) + brkOff] = mem[PageBase(n) + brkOff]
                 ELSE \/ nfail' = nfail + 1 /\ live' = live /\ vm' = vm
                      \/ /\ mmaps' = mmaps + 1
                         /\ \E y \in Held' :
                               /\ live' = live (+) SetToBag({y})
                               /\ y.b.Data = PageBase(y.b.Data) + headerSize
                               /\ PageBase(y.b.Data) \notin regs
                               /\ PageBase(y.b.Data) \in regs'
       /\ \A x \in Held, ok \in BOOLEAN :
             (/\ live' # live
              /\ x.path # "large"
              /\ DoFree(x, ok)) =>
                 LET OnOther(n) == PageBase(n) # PageBase(x.b.Data) IN
                 FreeList(x.k)'
                    = IF mem[PageBase(x.b.Data) + usedOff] = 1
                      THEN SelectSeq(FreeList(x.k), OnOther)
                      ELSE <<x.b.Data>> \o FreeList(x.k)]_vars

\* a region popped from a free list is held, another node is still listed
\* and the class has no current page
C29_Witness ==
    \E x \in Held :
        /\ x.path = "pop"
        /\ x.b.Data # nil
        /\ pages[x.k] = nil
        /\ lists[x.k] # nil
        /\ mmaps = 2

----------------------------------------------------------------------------
(* C30 *)

\* the allocator and its world after the step
StAfter ==
    [cap |-> cap', lists |-> lists', pages |-> pages', allocs |-> allocs',
     bytes |-> bytes', mmaps |-> mmaps', regs |-> regs', mem |-> mem',
     vm |-> vm']

\* the calls the program can make next: the base is used only if the call
\* maps, and the operating system has placed the mapping validly
Callable(r, c) == r.valid /\ (r.sys \/ c = nil)

\* a Malloc or Calloc step that carves the last slot of the current page of
\* class k
Saturating(size, k) ==
    /\ nops' # nops
    /\ RoundA(size) <= maxSlotSize
    /\ pages[k] # nil
    /\ mem[pages[k] + brkOff] + 1 = cap[k]
    /\ DoMalloc(size, nil) \/ DoCalloc(size, nil)

\* C30 (as claimed): the Malloc that carves the last slot of the current
\* page of class k clears pages[k], and the next Malloc in class k, unless
\* the operating system refuses the mapping, maps a fresh shared page:
\* mmaps grows by one.
C30_NextMintsPage ==
    [][\A size \in Sizes \ {0} :
          Saturating(size, CeilLog2(RoundA(size))) =>
              /\ pages'[CeilLog2(RoundA(size))] = nil
              /\ \A post \in {StAfter}, c \in Bases \cup {nil} :
                    \A r \in {Malloc(post, size, c)} :
                        (Callable(r, c) /\ ~r.err) =>
                            /\ r.a.mmaps = post.mmaps + 1
                            /\ r.path = "bump"]_vars

\* C30 (amended): the Malloc that carves the last slot of the current page
\* of class k clears pages[k]; the next Malloc in class k maps a fresh
\* shared page (mmaps grows by one, the slot is the first of that page) only
\* if lists[k] is empty at that time, and fails when the mapping is refused;
\* if lists[k] holds a node it returns the head of the list and maps
\* nothing.
C30_NextMintsOrPops ==
    [][\A size \in Sizes \ {0} :
          Saturating(size, CeilLog2(RoundA(size))) =>
              /\ pages'[CeilLog2(RoundA(size))] = nil
              /\ \A post \in {StAfter}, c \in Bases \cup {nil} :
                    \A r \in {Malloc(post, size, c)} :
                        Callable(r, c) =>
                            IF post.lists[CeilLog2(RoundA(size))] = nil
                            THEN /\ r.sys
                                 /\ r.err <=> c = nil
                                 /\ ~r.err =>
                                       /\ r.a.mmaps = post.mmaps + 1
                                       /\ r.b.Data = c + headerSize
                                       /\ r.a.pages[r.log] = c
                                       /\ c \notin post.regs
                            ELSE /\ ~r.sys /\ ~r.err
                                 /\ r.a.mmaps = post.mmaps
                                 /\ r.a.vm = post.vm
                                 /\ r.b.Data
                                      = post.lists[CeilLog2(RoundA(size))]]_vars

\* a shared page is fully carved with every slot in use, its class has no
\* current page, and a node of another page is on the free list
C30_Witness ==
    \E p \in SharedPages :
        LET k == mem[p + logOff] IN
        /\ mem[p + brkOff] = cap[k]
        /\ mem[p + usedOff] = cap[k]
        /\ pages[k] = nil
        /\ lists[k] # nil
        /\ \A x \in Held : PageBase(x.b.Data) = p => x.path = "bump"


----------------------------------------------------------------------------
(* C31 *)

\* a Free step that returns the last slot in use of the page recorded as
\* the current page of its class
DrainsCurrent(x, ok) ==
    /\ live' # live
    /\ x.path # "large"
    /\ pages[x.k] = PageBase(x.b.Data)
    /\ mem[PageBase(x.b.Data) + usedOff] = 1
    /\ DoFree(x, ok) \/ DoRealloc(x, 0, nil, ok)

\* the sizes served by class k
SizesOf(k) ==
    {size \in Sizes \ {0} :
        RoundA(size) <= maxSlotSize /\ CeilLog2(RoundA(size)) = k}

\* C31 (as claimed): a Free that drains the page recorded in pages[k]
\* (brk below the capacity, used reaching 0) clears pages[k] whatever the
\* unmap returns, and the next Malloc in class k, unless the operating
\* system refuses the mapping, maps a new page: mmaps grows by one.
C31_DrainedCurrentMints ==
    [][\A x \in Held, ok \in BOOLEAN :
          DrainsCurrent(x, ok) =>
              /\ mem[PageBase(x.b.Data) + brkOff] < cap[x.k]
              /\ pages'[x.k] = nil
              /\ \A post \in {StAfter}, c \in Bases \cup {nil},
                    size \in SizesOf(x.k) :
                    \A r \in {Malloc(post, size, c)} :
                        (Callable(r, c) /\ ~r.err) =>
                            /\ r.a.mmaps = post.mmaps + 1
                            /\ r.path = "bump"]_vars

\* C31 (amended): a Free that drains the page recorded in pages[k] clears
\* pages[k] whatever the unmap returns and the page leaves the registry;
\* the next Malloc in class k maps a new page (mmaps grows by one, the slot
\* is the first of a mapping the allocator did not hold) only if lists[k]
\* is empty at that time, and fails when the mapping is refused; if
\* lists[k] holds a node it returns the head of the list, a slot of another
\* page the allocator still holds, and maps nothing.  In neither case is
\* the slot carved from the drained page.
C31_DrainedCurrentMintsOrPops ==
    [][\A x \in Held, ok \in BOOLEAN :
          DrainsCurrent(x, ok) =>
              /\ mem[PageBase(x.b.Data) + brkOff] < cap[x.k]
              /\ pages'[x.k] = nil
              /\ PageBase(x.b.Data) \notin regs'
              /\ \A post \in {StAfter}, c \in Bases \cup {nil},
                    size \in SizesOf(x.k) :
                    \A r \in {Malloc(post, size, c)} :
                        Callable(r, c) =>
                            IF post.lists[x.k] = nil
                            THEN /\ r.sys
                                 /\ r.err <=> c = nil
                                 /\ ~r.err =>
                                       /\ r.a.mmaps = post.mmaps + 1
                                       /\ r.b.Data = c + headerSize
                                       /\ r.a.pages[x.k] = c
                                       /\ c \notin post.regs
                                       /\ ~ok => c # PageBase(x.b.Data)
                            ELSE /\ ~r.sys /\ ~r.err
                                 /\ r.a.mmaps = post.mmaps
                                 /\ r.a.vm = post.vm
                                 /\ r.b.Data = post.lists[x.k]
                                 /\ PageBase(r.b.Data) # PageBase(x.b.Data)
                                 /\ PageBase(r.b.Data) \in post.regs]_vars

\* the current page of a class was drained before it was fully carved (the
\* unmap failed, so its header can still be read: used = 0, brk below the
\* capacity); the class has no current page and a node of another page is
\* on its free list
C31_Witness ==
    \E m \in vm :
        LET k == mem[m.base + logOff] IN
        /\ m.base \notin regs
        /\ k # 0 /\ k \in Logs
        /\ mem[m.base + usedOff] = 0
        /\ mem[m.base + brkOff] \in 1 .. (cap[k] - 1)
        /\ pages[k] = nil
        /\ lists[k] # nil
        /\ PageBase(lists[k]) \in regs


----------------------------------------------------------------------------
(* C32 *)

\* the region y was handed out by this step, a Malloc or Calloc, carved
\* from a shared page at its brk
BumpIssued(y) ==
    /\ nops' # nops
    /\ y.path = "bump"
    /\ live' = live (+) SetToBag({y})

\* C32: a Malloc or Calloc step that carves a slot of class k from the
\* shared page p whose brk is j (0 for a page mapped by the step) returns
\* p + headerSize + j * 2^k and leaves brk = j + 1; the 2^k bytes of the
\* slot lie inside the mapping at p; the slot was not carved from the page
\* before, is on no free list and is held by nobody.  No step lowers the
\* brk of a shared page the allocator keeps.  A region handed out at an
\* address that was on a free list is the head popped from that list.
C32_BumpSlots ==
    [][/\ \A y \in Held' :
             BumpIssued(y) =>
                 LET k == y.k
                     p == PageBase(y.b.Data)
                     j == IF p \in regs THEN mem[p + brkOff] ELSE 0
                 IN /\ k = CeilLog2(RoundA(y.req))
                    /\ p \in regs'
                    /\ mem'[p + logOff] = k
                    /\ IF p \in regs
                       THEN pages[k] = p /\ mem[p + logOff] = k
                       ELSE pages[k] = nil /\ lists[k] = nil
                    /\ y.b.Data = p + headerSize + j * (2 ^ k)
                    /\ y.b.Cap = 2 ^ k
                    /\ mem'[p + brkOff] = j + 1
                    /\ j < cap'[k]
                    /\ \E m \in vm' :
                          /\ m.base = p
                          /\ y.b.Data + (2 ^ k) <= m.base + m.size
                    /\ p \in regs => y.b.Data \notin Carved(p, k)
                    /\ y.b.Data \notin FreeNodes(k)
                    /\ \A x \in Held :
                          ~Overlap(x.b.Data, x.b.Cap, y.b.Data, 2 ^ k)
       /\ \A p \in SharedPages :
             p \in regs' => mem'[p + brkOff] >= mem[p + brkOff]
       /\ \A y \in Held' :
             (/\ y.path # "large"
              /\ y.b.Data \in FreeNodes(y.k)) =>
                 /\ y.path = "pop"
                 /\ y.b.Data = lists[y.k]
                 /\ mem'[PageBase(y.b.Data) + brkOff]
                      = mem[PageBase(y.b.Data) + brkOff]]_vars

\* a shared page is fully carved; its slot of index 1 is held as the bump
\* allocation returned it, and its slot of index 0, freed in between, is
\* held again as a region popped from the free list
C32_Witness ==
    \E y \in Held, z \in Held :
        LET p == PageBase(y.b.Data)
            k == y.k
        IN /\ y.path = "bump"
           /\ z.path = "pop"
           /\ z.k = k
           /\ mem[p + logOff] = k
           /\ mem[p + brkOff] = cap[k]
           /\ y.b.Data = p + headerSize + 1 * (2 ^ k)
           /\ z.b.Data = p + headerSize

=============================================================================
